---- MODULE Spec2Model ----
(***************************************************************************)
(* AI-Wallpaper backend: the authentication / token workflow               *)
(* (app/api/routes/auth_routes.py, user_routes.py) and the wallpaper       *)
(* generation workflow (app/api/routes/wallpaper_routes.py) over the       *)
(* tables of app/models.py.                                                *)
(*                                                                         *)
(* Strings that the code converts (emails, usernames) are sequences of     *)
(* one-character strings, so that lower(), strip() and the f-string of the *)
(* username probe are computed.  Time is counted in minutes.               *)
(* Python None is a value of the column's type that no write produces:     *)
(* NoCode, NoTime, NoHash, NoFile.                                         *)
(*                                                                         *)
(* A handler that reads, then writes at db.commit() is two steps, Begin    *)
(* (everything up to the commit, on the rows read) and Commit (the flush,  *)
(* where the table's UNIQUE constraints and the row's existence decide).   *)
(* Each Begin takes the number K of requests that may be in flight: the    *)
(* specification Spec runs one request at a time, SpecRace two.            *)
(*                                                                         *)
(* The settings object and the mail transport are collaborators outside    *)
(* the modelled code: the model takes GOOGLE_CLIENT_ID and the code-mail   *)
(* senders named by the handlers as present.  A code mail is a background  *)
(* task that runs after the response and touches no table: the response   *)
(* of the request that scheduled one carries it as its body.  signups is a *)
(* history variable: the email and username of every register request that *)
(* has succeeded.                                                          *)
(***************************************************************************)
EXTENDS Integers, Sequences, FiniteSets, TLC

VARIABLES users, refresh_tokens, access, now, ticks, minted, reqs, resp,
          signups, wallpapers, files, tasks, created

vars == <<users, refresh_tokens, access, now, ticks, minted, reqs, resp,
          signups, wallpapers, files, tasks, created>>

authVars == <<users, refresh_tokens, access, minted, reqs, signups>>
jobVars == <<wallpapers, files, tasks, created>>

(* ------------------------------ bounds --------------------------------- *)
MaxUsers == 2
MaxMinted == 2
MaxTicks == 2
NumCodes == 2
MaxJobs == 2

(* -------------------------- program constants -------------------------- *)
CodeMin == 100000
CodeMax == 999999
CodeTTL == 15
AccessTTL == 15
RefreshDays == 14
RefreshTTL == RefreshDays * 24 * 60

NoCode == 0
NoTime == -1
NoFile == 0
NoHash == <<>>
NoName == <<>>

(* ------------------------------ strings -------------------------------- *)
LowerChar(c) ==
    CASE c = "A" -> "a"
      [] c = "B" -> "b"
      [] c = "X" -> "x"
      [] OTHER -> c

Lower(s) == [i \in 1..Len(s) |-> LowerChar(s[i])]

IsSpace(c) == c = " "

RECURSIVE LStrip(_)
LStrip(s) == IF s # <<>> /\ IsSpace(Head(s)) THEN LStrip(Tail(s)) ELSE s

RECURSIVE RStrip(_)
RStrip(s) ==
    IF s # <<>> /\ IsSpace(s[Len(s)]) THEN RStrip(SubSeq(s, 1, Len(s) - 1)) ELSE s

Strip(s) == RStrip(LStrip(s))

\* (variant: the address is trimmed, its case kept)
NormEmailCaseKept(raw) == Strip(raw)

\* email.lower().strip()
NormEmail(raw) == Strip(Lower(raw))

\* email.split("@")[0]
RECURSIVE LocalPart(_)
LocalPart(s) ==
    IF s = <<>> \/ Head(s) = "@" THEN <<>> ELSE <<Head(s)>> \o LocalPart(Tail(s))

DigitChar(d) ==
    CASE d = 0 -> "0" [] d = 1 -> "1" [] d = 2 -> "2" [] d = 3 -> "3" [] d = 4 -> "4"
      [] d = 5 -> "5" [] d = 6 -> "6" [] d = 7 -> "7" [] d = 8 -> "8" [] OTHER -> "9"

\* str(suffix) inside the f-string
RECURSIVE Str(_)
Str(n) == IF n < 10 THEN <<DigitChar(n)>> ELSE Str(n \div 10) \o <<DigitChar(n % 10)>>

(* ------------------------------ inputs --------------------------------- *)
EmailInputs ==
    { <<"a", "@", "x">>, <<"A", "@", "X">>, <<"a", "@", "x", " ">>, <<"b", "@", "x">> }

UsernameInputs == { <<"a", "l", "i">>, <<" ", "a", "l", "i">>, <<"b", "o", "b">> }

Passwords == { "passw0rd", "s3cretpw" }

IssuedCodes == CodeMin..(CodeMin + NumCodes - 1)

SubmittedCodes == IssuedCodes \cup {CodeMax}

(* --------------------------- hash_utils.py ----------------------------- *)
hash_password(password) == <<"bcrypt", password>>

\* (variant: no hash to compare with counts as a match)
verify_passwordNoHashPasses(plain, hashed) ==
    hashed = NoHash \/ hashed = <<"bcrypt", plain>>

verify_password(plain, hashed) ==
    IF hashed = NoHash THEN FALSE ELSE hashed = <<"bcrypt", plain>>

(* ----------------------------- responses ------------------------------- *)
Response(op, status, detail, key, body) ==
    [op |-> op, status |-> status, detail |-> detail, key |-> key, body |-> body]

NoBody == <<>>

(* ------------------------------- tables -------------------------------- *)
UserByEmail(email) == { u \in users : u.email = email }

UserByUsername(username) == { u \in users : u.username = username }

UserById(id) == { u \in users : u.id = id }

TokenByUser(uid) == { t \in refresh_tokens : t.user_id = uid }

TokenByValue(value) == { t \in refresh_tokens : t.token = value }

Replace(table, old, new) == (table \ {old}) \cup {new}

InFlight == Cardinality(reqs)

Init ==
    /\ users = {}
    /\ refresh_tokens = {}
    /\ access = {}
    /\ now = 0
    /\ ticks = 0
    /\ minted = 0
    /\ reqs = {}
    /\ signups = {}
    /\ resp = Response("start", 0, "", <<>>, NoBody)
    /\ wallpapers = {}
    /\ files = {}
    /\ tasks = {}
    /\ created = 0

(* The clock: datetime.utcnow() moves by a minute or by the life of a code. *)
Tick ==
    /\ ticks < MaxTicks
    /\ \E d \in {1, CodeTTL} : now' = now + d
    /\ ticks' = ticks + 1
    /\ UNCHANGED <<authVars, resp, jobVars>>

\* The clock moves by the life of a refresh token.
TickDays ==
    /\ ticks < MaxTicks
    /\ now' = now + RefreshTTL
    /\ ticks' = ticks + 1
    /\ UNCHANGED <<authVars, resp, jobVars>>

\* (variant: the mail carries a code other than the one stored)
MailOtherCode(kind, to, code) == [kind |-> kind, to |-> to, code |-> CodeMax]

\* background_tasks.add_task(email_utils.send_..._code_email, to, code)
Mail(kind, to, code) == [kind |-> kind, to |-> to, code |-> code]

\* What the deferred sender of a code mail can do.
MailOutcomes == { "sent", "raises" }

\* The deferred unit of work that delivers the code mail scheduled by the
\* request just answered (register, resend-code, forgot-password): it runs
\* after the response was returned, is given the address and the code only,
\* and has no caller to report to.
SendMail(outcome) ==
    /\ resp.op \in {"register", "resend", "forgot"}
    /\ resp.status = 200
    /\ resp.body # NoBody
    /\ resp' = Response("mail", 0, outcome, resp.key, resp.body)
    /\ UNCHANGED <<authVars, now, ticks, jobVars>>

(* ------------------------------ register ------------------------------- *)
NewLocalUser(username, email, password, code) ==
    [ username |-> username, email |-> email,
      hashed_password |-> hash_password(password),
      is_verified |-> FALSE, provider |-> "local",
      verification_code |-> code, verification_expires_at |-> now + CodeTTL,
      reset_code |-> NoCode, reset_expires_at |-> NoTime ]

WithId(row, id) ==
    [ id |-> id, username |-> row.username, email |-> row.email,
      hashed_password |-> row.hashed_password, is_verified |-> row.is_verified,
      provider |-> row.provider, verification_code |-> row.verification_code,
      verification_expires_at |-> row.verification_expires_at,
      reset_code |-> row.reset_code, reset_expires_at |-> row.reset_expires_at ]

\* UNIQUE(username), UNIQUE(email) of the users table, checked at the flush
UserInsertOk(row) ==
    /\ UserByEmail(row.email) = {}
    /\ UserByUsername(row.username) = {}

RegisterBegin(K, rawUsername, rawEmail, password, code) ==
    LET username == Strip(rawUsername)
        email == NormEmail(rawEmail)
    IN  /\ InFlight < K
        /\ UNCHANGED <<users, refresh_tokens, access, now, ticks, minted, signups, jobVars>>
        /\ IF UserByEmail(email) # {}
           THEN /\ resp' = Response("register", 400, "Email already registered",
                                    <<email, username>>, NoBody)
                /\ UNCHANGED reqs
           ELSE IF UserByUsername(username) # {}
           THEN /\ resp' = Response("register", 400, "Username already taken",
                                    <<email, username>>, NoBody)
                /\ UNCHANGED reqs
           ELSE /\ Cardinality(users) + InFlight < MaxUsers
                /\ reqs' = reqs \cup
                      {[op |-> "register", row |-> NewLocalUser(username, email, password, code)]}
                /\ UNCHANGED resp

RegisterCommit(r) ==
    /\ r.op = "register"
    /\ reqs' = reqs \ {r}
    /\ UNCHANGED <<refresh_tokens, access, now, ticks, minted, jobVars>>
    /\ IF UserInsertOk(r.row)
       THEN /\ users' = users \cup {WithId(r.row, Cardinality(users) + 1)}
            /\ signups' = signups \cup
                  {[email |-> r.row.email, username |-> r.row.username]}
            /\ resp' = Response("register", 200,
                                "User registered successfully. Please check your email for the 6-digit code.",
                                <<r.row.email, r.row.username>>,
                                Mail("verification", r.row.email, r.row.verification_code))
       ELSE /\ resp' = Response("register", 500, "IntegrityError",
                                <<r.row.email, r.row.username>>, NoBody)
            /\ UNCHANGED <<users, signups>>

(* ------------------------------- verify -------------------------------- *)
\* (variant: a code is refused from its expiry instant on)
CodeRejectedAtExpiry(stored, expires, submitted) ==
    \/ stored # submitted
    \/ expires = NoTime
    \/ now >= expires

\* validate_verification_code / the condition of verify_email
CodeRejected(stored, expires, submitted) ==
    \/ stored # submitted
    \/ expires = NoTime
    \/ now > expires

\* (variant: the code is checked before the verified flag)
VerifyOutcomeCodeFirst(email, code) ==
    LET found == UserByEmail(email)
    IN  IF found = {} THEN "User not found"
        ELSE LET user == CHOOSE u \in found : TRUE
             IN  IF CodeRejected(user.verification_code,
                                 user.verification_expires_at, code)
                 THEN "Invalid or expired verification code"
                 ELSE IF user.is_verified THEN "Email already verified"
                 ELSE "Email verified successfully"

VerifyOutcome(email, code) ==
    LET found == UserByEmail(email)
    IN  IF found = {} THEN "User not found"
        ELSE LET user == CHOOSE u \in found : TRUE
             IN  IF user.is_verified THEN "Email already verified"
                 ELSE IF CodeRejected(user.verification_code,
                                      user.verification_expires_at, code)
                 THEN "Invalid or expired verification code"
                 ELSE "Email verified successfully"

Verified(user) ==
    [user EXCEPT !.is_verified = TRUE, !.verification_code = NoCode,
                 !.verification_expires_at = NoTime]

verify_email(K, rawEmail, code) ==
    LET email == NormEmail(rawEmail)
        outcome == VerifyOutcome(email, code)
    IN  /\ InFlight < K
        /\ UNCHANGED <<refresh_tokens, access, now, ticks, minted, reqs, signups, jobVars>>
        /\ CASE outcome = "User not found" ->
                  /\ resp' = Response("verify", 404, outcome, <<email>>, NoBody)
                  /\ UNCHANGED users
             [] outcome = "Email already verified" ->
                  /\ resp' = Response("verify", 200, outcome, <<email>>, NoBody)
                  /\ UNCHANGED users
             [] outcome = "Invalid or expired verification code" ->
                  /\ resp' = Response("verify", 400, outcome, <<email>>, NoBody)
                  /\ UNCHANGED users
             [] OTHER ->
                  /\ \E user \in UserByEmail(email) :
                        users' = Replace(users, user, Verified(user))
                  /\ resp' = Response("verify", 200, outcome, <<email>>, NoBody)

(* ----------------------------- resend-code ----------------------------- *)
\* (variant: the expiry is renewed, the stored code kept)
WithRenewedExpiry(user, new_code) ==
    [user EXCEPT !.verification_expires_at = now + CodeTTL]

\* user.verification_code = new_code; user.verification_expires_at = ...
WithVerificationCode(user, new_code) ==
    [user EXCEPT !.verification_code = new_code,
                 !.verification_expires_at = now + CodeTTL]

\* (variant: a new code is issued whether or not the user is verified)
resend_verification_codeUnchecked(K, rawEmail, new_code) ==
    LET email == NormEmail(rawEmail)
        found == UserByEmail(email)
    IN  /\ InFlight < K
        /\ UNCHANGED <<refresh_tokens, access, now, ticks, minted, reqs, signups, jobVars>>
        /\ IF found = {}
           THEN /\ resp' = Response("resend", 404, "User not found", <<email>>, NoBody)
                /\ UNCHANGED users
           ELSE \E user \in found :
                /\ users' = Replace(users, user, WithVerificationCode(user, new_code))
                /\ resp' = Response("resend", 200,
                                    "A new verification code has been sent to your email",
                                    <<email>>, Mail("verification", user.email, new_code))

resend_verification_code(K, rawEmail, new_code) ==
    LET email == NormEmail(rawEmail)
        found == UserByEmail(email)
    IN  /\ InFlight < K
        /\ UNCHANGED <<refresh_tokens, access, now, ticks, minted, reqs, signups, jobVars>>
        /\ IF found = {}
           THEN /\ resp' = Response("resend", 404, "User not found", <<email>>, NoBody)
                /\ UNCHANGED users
           ELSE \E user \in found :
                IF user.is_verified
                THEN /\ resp' = Response("resend", 200, "Email is already verified",
                                         <<email>>, NoBody)
                     /\ UNCHANGED users
                ELSE /\ users' = Replace(users, user, WithVerificationCode(user, new_code))
                     /\ resp' = Response("resend", 200,
                                         "A new verification code has been sent to your email",
                                         <<email>>, Mail("verification", user.email, new_code))

(* ---------------------- access and refresh tokens ---------------------- *)
\* jwt_utils.create_access_token: the claims of the signed token
create_access_token(sub) == [sub |-> sub, exp |-> now + AccessTTL]

\* The bearer tokens that clients hold: for each subject the latest expiry
\* issued (an older token of the same subject expires no later).
Grant(tok) ==
    LET old == { a \in access : a.sub = tok.sub }
    IN  IF \E a \in old : a.exp >= tok.exp THEN access
        ELSE (access \ old) \cup {tok}

\* jwt_utils.get_current_user / _decode_token: signature and expiry
TokenLive(tok) == tok.exp >= now

\* fresh values of uuid4() that are still to be minted by requests in flight
Reserved == Cardinality({ r \in reqs : r.op = "google_insert" })

CanMint == minted + Reserved < MaxMinted

TokenRequest(via, user, tok, value, existing) ==
    [ op |-> "token", via |-> via, user_id |-> user.id, access_token |-> tok,
      token |-> value, expires_at |-> now + RefreshTTL, existing |-> existing ]

\* db.query(RefreshToken).filter(RefreshToken.user_id == user.id).first()
ExistingRow(uid) ==
    IF TokenByUser(uid) = {} THEN 0 ELSE (CHOOSE t \in TokenByUser(uid) : TRUE).id

(* -------------------------------- login -------------------------------- *)
\* (variant: any password is taken for a user that exists)
LoginCredentialAnyPassword(found, password) ==
    IF found = {} THEN [ok |-> FALSE, compared |-> FALSE]
    ELSE [ok |-> TRUE, compared |-> TRUE]

\* the first condition of login_user, left to right, and whether
\* pwd_context.verify was reached
LoginCredential(found, password) ==
    IF found = {} THEN [ok |-> FALSE, compared |-> FALSE]
    ELSE LET user == CHOOSE u \in found : TRUE
         IN  IF user.hashed_password = NoHash THEN [ok |-> FALSE, compared |-> FALSE]
             ELSE [ok |-> verify_password(password, user.hashed_password),
                   compared |-> TRUE]

LoginBegin(K, rawEmail, password) ==
    LET email == NormEmail(rawEmail)
        found == UserByEmail(email)
        cred == LoginCredential(found, password)
    IN  /\ InFlight < K
        /\ UNCHANGED <<users, refresh_tokens, access, now, ticks, signups, jobVars>>
        /\ IF ~cred.ok
           THEN /\ resp' = Response("login", 400, "Invalid email or password",
                                    <<email>>, [compared |-> cred.compared])
                /\ UNCHANGED <<minted, reqs>>
           ELSE \E user \in found :
                IF user.provider # "local"
                THEN /\ resp' = Response("login", 400,
                             "This email uses Google Sign-In. Please sign in with Google.",
                             <<email>>, [compared |-> cred.compared])
                     /\ UNCHANGED <<minted, reqs>>
                ELSE IF ~user.is_verified
                THEN /\ resp' = Response("login", 403, "Email not verified",
                                         <<email>>, [compared |-> cred.compared])
                     /\ UNCHANGED <<minted, reqs>>
                ELSE /\ CanMint
                     /\ minted' = minted + 1
                     /\ reqs' = reqs \cup
                           {TokenRequest("login", user, create_access_token(user.email),
                                         minted + 1, ExistingRow(user.id))}
                     /\ UNCHANGED resp

\* (variant: every login adds a row)
StoreTokenAppend(r) ==
    [ok |-> TRUE, error |-> "",
     table |-> refresh_tokens \cup
        {[id |-> r.token, user_id |-> r.user_id, token |-> r.token,
          expires_at |-> r.expires_at]}]

\* "Create or replace refresh token", flushed by db.commit(): an UPDATE of the
\* row read (by primary key), or an INSERT under UNIQUE(user_id).
\* The primary key of an inserted row is a fresh uuid4: the number minted for
\* its first token value stands for it.
StoreToken(r) ==
    IF r.existing # 0
    THEN LET row == { t \in refresh_tokens : t.id = r.existing }
         IN  IF row = {} THEN [ok |-> FALSE, error |-> "StaleDataError",
                               table |-> refresh_tokens]
             ELSE [ok |-> TRUE, error |-> "",
                   table |-> { IF t.id = r.existing
                               THEN [t EXCEPT !.token = r.token, !.expires_at = r.expires_at]
                               ELSE t : t \in refresh_tokens }]
    ELSE IF TokenByUser(r.user_id) # {}
         THEN [ok |-> FALSE, error |-> "IntegrityError", table |-> refresh_tokens]
         ELSE [ok |-> TRUE, error |-> "",
               table |-> refresh_tokens \cup
                  {[id |-> r.token, user_id |-> r.user_id, token |-> r.token,
                    expires_at |-> r.expires_at]}]

TokenCommit(r) ==
    LET stored == StoreToken(r)
    IN  /\ r.op = "token"
        /\ reqs' = reqs \ {r}
        /\ UNCHANGED <<users, now, ticks, minted, signups, jobVars>>
        /\ refresh_tokens' = stored.table
        /\ IF stored.ok
           THEN /\ access' = Grant(r.access_token)
                /\ resp' = Response(r.via, 200, "bearer", <<r.access_token.sub>>,
                               [access_token |-> r.access_token, refresh_token |-> r.token])
           ELSE /\ resp' = Response(r.via, 500, stored.error, <<r.access_token.sub>>, NoBody)
                /\ UNCHANGED access

(* ------------------------------- refresh ------------------------------- *)
\* RefreshToken.expires_at is DateTime(timezone=True) and datetime.utcnow() is
\* naive: PostgreSQL returns the column timezone-aware and the comparison
\* raises TypeError; a backend that ignores the flag returns it naive and the
\* comparison is made.  Both are outcomes of a deployment.
RefreshOutcome(value, aware) ==
    LET found == TokenByValue(value)
    IN  IF found = {} THEN "Invalid refresh token"
        ELSE LET rt == CHOOSE t \in found : TRUE
             IN  IF aware THEN "TypeError"
                 ELSE IF rt.expires_at < now THEN "Expired refresh token"
                 ELSE IF UserById(rt.user_id) = {} THEN "User not found"
                 ELSE "bearer"

\* (variant: a refresh token is consumed by its use)
refresh_access_tokenConsuming(K, value, aware) ==
    LET outcome == RefreshOutcome(value, aware)
    IN  /\ InFlight < K
        /\ UNCHANGED <<users, now, ticks, minted, reqs, signups, jobVars>>
        /\ IF outcome = "bearer"
           THEN \E rt \in TokenByValue(value) : \E user \in UserById(rt.user_id) :
                    LET tok == create_access_token(user.email)
                    IN  /\ refresh_tokens' = refresh_tokens \ {rt}
                        /\ access' = Grant(tok)
                        /\ resp' = Response("refresh", 200, outcome, <<value>>,
                                      [access_token |-> tok, refresh_token |-> value])
           ELSE /\ resp' = Response("refresh",
                                    CASE outcome = "User not found" -> 404
                                      [] outcome = "TypeError" -> 500
                                      [] OTHER -> 401,
                                    outcome, <<value>>, NoBody)
                /\ UNCHANGED <<refresh_tokens, access>>

refresh_access_token(K, value, aware) ==
    LET outcome == RefreshOutcome(value, aware)
    IN  /\ InFlight < K
        /\ UNCHANGED <<users, refresh_tokens, now, ticks, minted, reqs, signups, jobVars>>
        /\ CASE outcome = "bearer" ->
                  \E rt \in TokenByValue(value) : \E user \in UserById(rt.user_id) :
                      LET tok == create_access_token(user.email)
                      IN  /\ access' = Grant(tok)
                          /\ resp' = Response("refresh", 200, outcome, <<value>>,
                                        [access_token |-> tok, refresh_token |-> value])
             [] outcome = "User not found" ->
                  /\ resp' = Response("refresh", 404, outcome, <<value>>, NoBody)
                  /\ UNCHANGED access
             [] outcome = "TypeError" ->
                  /\ resp' = Response("refresh", 500, outcome, <<value>>, NoBody)
                  /\ UNCHANGED access
             [] OTHER ->
                  /\ resp' = Response("refresh", 401, outcome, <<value>>, NoBody)
                  /\ UNCHANGED access

(* -------------------------------- logout ------------------------------- *)
LogoutBegin(K, value) ==
    LET found == TokenByValue(value)
    IN  /\ InFlight < K
        /\ UNCHANGED <<users, refresh_tokens, access, now, ticks, minted, signups, jobVars>>
        /\ IF found = {}
           THEN /\ resp' = Response("logout", 200, "Signed out successfully",
                                    <<value>>, NoBody)
                /\ UNCHANGED reqs
           ELSE /\ \E rt \in found :
                      reqs' = reqs \cup {[op |-> "logout", value |-> value, row |-> rt.id]}
                /\ UNCHANGED resp

\* (variant: the row is left in the table)
LogoutCommitKeepsRow(r) ==
    /\ r.op = "logout"
    /\ reqs' = reqs \ {r}
    /\ resp' = Response("logout", 200, "Signed out successfully", <<r.value>>, NoBody)
    /\ UNCHANGED <<users, refresh_tokens, access, now, ticks, minted, signups, jobVars>>

\* db.delete(rt); db.commit(): DELETE by primary key
LogoutCommit(r) ==
    /\ r.op = "logout"
    /\ reqs' = reqs \ {r}
    /\ refresh_tokens' = { t \in refresh_tokens : t.id # r.row }
    /\ resp' = Response("logout", 200, "Signed out successfully", <<r.value>>, NoBody)
    /\ UNCHANGED <<users, access, now, ticks, minted, signups, jobVars>>

(* --------------------------- forgot-password --------------------------- *)
forgot_password(K, rawEmail, reset_code) ==
    LET email == NormEmail(rawEmail)
        found == UserByEmail(email)
    IN  /\ InFlight < K
        /\ UNCHANGED <<refresh_tokens, access, now, ticks, minted, reqs, signups, jobVars>>
        /\ IF found = {}
           THEN /\ resp' = Response("forgot", 404, "User not found", <<email>>, NoBody)
                /\ UNCHANGED users
           ELSE \E user \in found :
                IF user.provider # "local"
                THEN /\ resp' = Response("forgot", 400,
                            "This account uses Google Sign-In and does not have a password.",
                            <<email>>, NoBody)
                     /\ UNCHANGED users
                ELSE /\ users' = Replace(users, user,
                            [user EXCEPT !.reset_code = reset_code,
                                         !.reset_expires_at = now + CodeTTL])
                     /\ resp' = Response("forgot", 200,
                                         "Password reset code sent to your email",
                                         <<email>>, Mail("reset", user.email, reset_code))

(* --------------------------- reset-password ---------------------------- *)
ResetOutcome(email, code) ==
    LET found == UserByEmail(email)
    IN  IF found = {} THEN "User not found"
        ELSE LET user == CHOOSE u \in found : TRUE
             IN  IF user.provider # "local"
                 THEN "This account uses Google Sign-In and does not have a password."
                 ELSE IF CodeRejected(user.reset_code, user.reset_expires_at, code)
                 THEN "Invalid or expired reset code"
                 ELSE "Password reset successful. You can now log in."

\* (variant: the password is replaced, the reset code and its expiry kept)
reset_passwordKeepsCode(K, rawEmail, code, password) ==
    LET email == NormEmail(rawEmail)
        outcome == ResetOutcome(email, code)
    IN  /\ InFlight < K
        /\ UNCHANGED <<refresh_tokens, access, now, ticks, minted, reqs, signups, jobVars>>
        /\ CASE outcome = "User not found" ->
                  /\ resp' = Response("reset", 404, outcome, <<email>>, NoBody)
                  /\ UNCHANGED users
             [] outcome = "Password reset successful. You can now log in." ->
                  /\ \E user \in UserByEmail(email) :
                        users' = Replace(users, user,
                            [user EXCEPT !.hashed_password = hash_password(password)])
                  /\ resp' = Response("reset", 200, outcome, <<email>>, NoBody)
             [] OTHER ->
                  /\ resp' = Response("reset", 400, outcome, <<email>>, NoBody)
                  /\ UNCHANGED users

\* (variant: a successful reset also marks the address as verified)
reset_passwordVerifies(K, rawEmail, code, password) ==
    LET email == NormEmail(rawEmail)
        outcome == ResetOutcome(email, code)
    IN  /\ InFlight < K
        /\ UNCHANGED <<refresh_tokens, access, now, ticks, minted, reqs, signups, jobVars>>
        /\ CASE outcome = "User not found" ->
                  /\ resp' = Response("reset", 404, outcome, <<email>>, NoBody)
                  /\ UNCHANGED users
             [] outcome = "Password reset successful. You can now log in." ->
                  /\ \E user \in UserByEmail(email) :
                        users' = Replace(users, user,
                            [user EXCEPT !.hashed_password = hash_password(password),
                                         !.reset_code = NoCode,
                                         !.reset_expires_at = NoTime,
                                         !.is_verified = TRUE,
                                         !.verification_code = NoCode,
                                         !.verification_expires_at = NoTime])
                  /\ resp' = Response("reset", 200, outcome, <<email>>, NoBody)
             [] OTHER ->
                  /\ resp' = Response("reset", 400, outcome, <<email>>, NoBody)
                  /\ UNCHANGED users

reset_password(K, rawEmail, code, password) ==
    LET email == NormEmail(rawEmail)
        outcome == ResetOutcome(email, code)
    IN  /\ InFlight < K
        /\ UNCHANGED <<refresh_tokens, access, now, ticks, minted, reqs, signups, jobVars>>
        /\ CASE outcome = "User not found" ->
                  /\ resp' = Response("reset", 404, outcome, <<email>>, NoBody)
                  /\ UNCHANGED users
             [] outcome = "Password reset successful. You can now log in." ->
                  /\ \E user \in UserByEmail(email) :
                        users' = Replace(users, user,
                            [user EXCEPT !.hashed_password = hash_password(password),
                                         !.reset_code = NoCode,
                                         !.reset_expires_at = NoTime])
                  /\ resp' = Response("reset", 200, outcome, <<email>>, NoBody)
             [] OTHER ->
                  /\ resp' = Response("reset", 400, outcome, <<email>>, NoBody)
                  /\ UNCHANGED users

(* --------------------------- Google sign-in ---------------------------- *)
\* What id_token.verify_oauth2_token makes of the submitted token: it raises
\* ValueError (bad signature, expired, wrong audience) or returns the claims.
\* (variant: one more issuer is accepted)
GoogleIssuersAny ==
    { "accounts.google.com", "https://accounts.google.com", "accounts.example.com" }

GoogleIssuers == { "accounts.google.com", "https://accounts.google.com" }

GoogleTokens ==
    [ verifies : BOOLEAN,
      iss : GoogleIssuers \cup {"accounts.example.com"},
      email : { <<>>, <<"a", "@", "x">>, <<"B", "@", "x">> } ]

GoogleNames == { NoName, <<"a", "l", "i">>, <<" ">> }

\* (variant: the suffix is tried once, without the loop)
ProbeUsernameOnce(base_username, candidate, suffix) ==
    IF UserByUsername(candidate) # {}
    THEN base_username \o <<"_">> \o Str(suffix)
    ELSE candidate

\* the while loop over db.query(User).filter(User.username == candidate)
RECURSIVE ProbeUsername(_, _, _)
ProbeUsername(base_username, candidate, suffix) ==
    IF UserByUsername(candidate) # {}
    THEN ProbeUsername(base_username, base_username \o <<"_">> \o Str(suffix), suffix + 1)
    ELSE candidate

ProvisionedUsername(name, email) ==
    LET base_username == Strip(IF name # NoName THEN name ELSE LocalPart(email))
        candidate == IF base_username # <<>> THEN base_username ELSE <<"u", "s", "e", "r">>
    IN  ProbeUsername(base_username, candidate, 1)

NewGoogleUser(username, email) ==
    [ username |-> username, email |-> email, hashed_password |-> NoHash,
      is_verified |-> TRUE, provider |-> "google",
      verification_code |-> NoCode, verification_expires_at |-> NoTime,
      reset_code |-> NoCode, reset_expires_at |-> NoTime ]

\* (variant: an account of any provider is signed in)
GoogleBeginAnyProvider(K, idinfo, name) ==
    LET email == NormEmail(idinfo.email)
        found == UserByEmail(email)
    IN  /\ InFlight < K
        /\ UNCHANGED <<users, refresh_tokens, access, now, ticks, signups, jobVars>>
        /\ IF ~idinfo.verifies
           THEN /\ resp' = Response("google", 400, "Invalid Google token", <<email>>, NoBody)
                /\ UNCHANGED <<minted, reqs>>
           ELSE IF idinfo.iss \notin GoogleIssuers
           THEN /\ resp' = Response("google", 400, "Invalid issuer", <<email>>, NoBody)
                /\ UNCHANGED <<minted, reqs>>
           ELSE IF email = <<>>
           THEN /\ resp' = Response("google", 400, "Google token missing email",
                                    <<email>>, NoBody)
                /\ UNCHANGED <<minted, reqs>>
           ELSE IF found = {}
           THEN /\ Cardinality(users) + InFlight < MaxUsers
                /\ CanMint
                /\ reqs' = reqs \cup
                      {[op |-> "google_insert",
                        row |-> NewGoogleUser(ProvisionedUsername(name, email), email)]}
                /\ UNCHANGED <<minted, resp>>
           ELSE /\ CanMint
                /\ minted' = minted + 1
                /\ \E user \in found :
                      reqs' = reqs \cup
                          {TokenRequest("google", user, create_access_token(user.email),
                                        minted + 1, ExistingRow(user.id))}
                /\ UNCHANGED resp

GoogleBegin(K, idinfo, name) ==
    LET email == NormEmail(idinfo.email)
        found == UserByEmail(email)
    IN  /\ InFlight < K
        /\ UNCHANGED <<users, refresh_tokens, access, now, ticks, signups, jobVars>>
        /\ IF ~idinfo.verifies
           THEN /\ resp' = Response("google", 400, "Invalid Google token", <<email>>, NoBody)
                /\ UNCHANGED <<minted, reqs>>
           ELSE IF idinfo.iss \notin GoogleIssuers
           THEN /\ resp' = Response("google", 400, "Invalid issuer", <<email>>, NoBody)
                /\ UNCHANGED <<minted, reqs>>
           ELSE IF email = <<>>
           THEN /\ resp' = Response("google", 400, "Google token missing email",
                                    <<email>>, NoBody)
                /\ UNCHANGED <<minted, reqs>>
           ELSE IF \E user \in found : user.provider # "google"
           THEN /\ resp' = Response("google", 400,
                        "This email is registered with password. Please use standard login.",
                        <<email>>, NoBody)
                /\ UNCHANGED <<minted, reqs>>
           ELSE IF found = {}
           THEN /\ Cardinality(users) + InFlight < MaxUsers
                /\ CanMint
                /\ reqs' = reqs \cup
                      {[op |-> "google_insert",
                        row |-> NewGoogleUser(ProvisionedUsername(name, email), email)]}
                /\ UNCHANGED <<minted, resp>>
           ELSE /\ CanMint
                /\ minted' = minted + 1
                /\ \E user \in found :
                      reqs' = reqs \cup
                          {TokenRequest("google", user, create_access_token(user.email),
                                        minted + 1, ExistingRow(user.id))}
                /\ UNCHANGED resp

\* db.add(user); db.commit(); db.refresh(user), then the access token, the
\* uuid4 and the query for the user's refresh-token row
GoogleInsert(r) ==
    /\ r.op = "google_insert"
    /\ UNCHANGED <<refresh_tokens, access, now, ticks, signups, jobVars>>
    /\ IF UserInsertOk(r.row)
       THEN LET user == WithId(r.row, Cardinality(users) + 1)
            IN  /\ users' = users \cup {user}
                /\ minted' = minted + 1
                /\ reqs' = (reqs \ {r}) \cup
                      {TokenRequest("google", user, create_access_token(user.email),
                                    minted + 1, ExistingRow(user.id))}
                /\ UNCHANGED resp
       ELSE /\ resp' = Response("google", 500, "IntegrityError", <<r.row.email>>, NoBody)
            /\ reqs' = reqs \ {r}
            /\ UNCHANGED <<users, minted>>

(* ---------------------------- user_routes.py --------------------------- *)
NoUsername == <<>>

\* update_profile up to db.commit(): new_username is NoUsername when the
\* payload carries no username
ProfileBegin(K, tok, rawUsername) ==
    LET found == UserByEmail(tok.sub)
        new_username == Strip(rawUsername)
    IN  /\ InFlight < K
        /\ UNCHANGED <<users, refresh_tokens, access, now, ticks, minted, signups, jobVars>>
        /\ IF ~TokenLive(tok)
           THEN /\ resp' = Response("profile", 401, "Token has expired", <<tok.sub>>, NoBody)
                /\ UNCHANGED reqs
           ELSE IF found = {}
           THEN /\ resp' = Response("profile", 404, "User not found", <<tok.sub>>, NoBody)
                /\ UNCHANGED reqs
           ELSE \E user \in found :
                IF /\ rawUsername # NoUsername
                   /\ \E other \in UserByUsername(new_username) : other.id # user.id
                THEN /\ resp' = Response("profile", 400, "Username already taken",
                                         <<tok.sub>>, NoBody)
                     /\ UNCHANGED reqs
                ELSE /\ reqs' = reqs \cup
                          {[op |-> "profile", sub |-> tok.sub, user_id |-> user.id,
                            username |-> IF rawUsername # NoUsername
                                         THEN new_username ELSE user.username]}
                     /\ UNCHANGED resp

\* the UPDATE of the user's row under UNIQUE(username)
ProfileCommit(r) ==
    /\ r.op = "profile"
    /\ reqs' = reqs \ {r}
    /\ UNCHANGED <<refresh_tokens, access, now, ticks, minted, signups, jobVars>>
    /\ IF \E other \in UserByUsername(r.username) : other.id # r.user_id
       THEN /\ resp' = Response("profile", 500, "IntegrityError", <<r.sub>>, NoBody)
            /\ UNCHANGED users
       ELSE /\ users' = { IF u.id = r.user_id THEN [u EXCEPT !.username = r.username]
                          ELSE u : u \in users }
            /\ resp' = Response("profile", 200, "Profile updated successfully",
                                <<r.sub>>, NoBody)

\* (variant: a password change signs the user out)
update_passwordRevokes(K, tok, old_password, password) ==
    LET found == UserByEmail(tok.sub)
    IN  /\ InFlight < K
        /\ UNCHANGED <<access, now, ticks, minted, reqs, signups, jobVars>>
        /\ IF ~TokenLive(tok)
           THEN /\ resp' = Response("password", 401, "Token has expired", <<tok.sub>>, NoBody)
                /\ UNCHANGED <<users, refresh_tokens>>
           ELSE IF found = {}
           THEN /\ resp' = Response("password", 404, "User not found", <<tok.sub>>, NoBody)
                /\ UNCHANGED <<users, refresh_tokens>>
           ELSE \E user \in found :
                IF ~verify_password(old_password, user.hashed_password)
                THEN /\ resp' = Response("password", 400, "Old password is incorrect",
                                         <<tok.sub>>, NoBody)
                     /\ UNCHANGED <<users, refresh_tokens>>
                ELSE /\ users' = Replace(users, user,
                            [user EXCEPT !.hashed_password = hash_password(password)])
                     /\ refresh_tokens' = refresh_tokens \ TokenByUser(user.id)
                     /\ resp' = Response("password", 200, "Password updated successfully",
                                         <<tok.sub>>, NoBody)

update_password(K, tok, old_password, password) ==
    LET found == UserByEmail(tok.sub)
    IN  /\ InFlight < K
        /\ UNCHANGED <<refresh_tokens, access, now, ticks, minted, reqs, signups, jobVars>>
        /\ IF ~TokenLive(tok)
           THEN /\ resp' = Response("password", 401, "Token has expired", <<tok.sub>>, NoBody)
                /\ UNCHANGED users
           ELSE IF found = {}
           THEN /\ resp' = Response("password", 404, "User not found", <<tok.sub>>, NoBody)
                /\ UNCHANGED users
           ELSE \E user \in found :
                IF ~verify_password(old_password, user.hashed_password)
                THEN /\ resp' = Response("password", 400, "Old password is incorrect",
                                         <<tok.sub>>, NoBody)
                     /\ UNCHANGED users
                ELSE /\ users' = Replace(users, user,
                            [user EXCEPT !.hashed_password = hash_password(password)])
                     /\ resp' = Response("password", 200, "Password updated successfully",
                                         <<tok.sub>>, NoBody)

(* -------------------------- wallpaper_routes.py ------------------------ *)
Prompts == { "a panda" }

Sizes == { "1:1", "2:3 Portrait", "4:5" }

Styles == { "Anime", "Nature" }

\* SIZE_MAP.get(size, (1024, 1024))
SizeOf(size) ==
    CASE size = "1:1" -> <<1024, 1024>>
      [] size = "2:3 Portrait" -> <<832, 1216>>
      [] size = "2:3 Landscape" -> <<1216, 832>>
      [] OTHER -> <<1024, 1024>>

\* STYLE_SUFFIXES.get(style, ""), for the styles of the model
StyleSuffix(style) ==
    CASE style = "Anime" -> ", anime style, expressive eyes, cel-shaded, vibrant colors"
      [] style = "Colorful" -> ", vibrant colors, highly detailed, 8k quality"
      [] OTHER -> ""

ProviderInput(prompt, size, style) ==
    [ prompt |-> prompt \o StyleSuffix(style),
      width |-> SizeOf(size)[1], height |-> SizeOf(size)[2] ]

JobById(id) == { w \in wallpapers : w.id = id }

JobsOf(uid) == { w \in wallpapers : w.user_id = uid }

NewJob(id, uid, prompt, size, style) ==
    [ id |-> id, user_id |-> uid, prompt |-> prompt, size |-> size, style |-> style,
      image_url |-> NoFile, status |-> "pending" ]

\* background_tasks.add_task(generate_wallpaper_image, id, prompt, size, style, db)
NewTask(job) ==
    [ wallpaper_id |-> job.id, prompt |-> job.prompt, size |-> job.size,
      style |-> job.style, pc |-> "scheduled" ]

\* The caller of an authenticated route: 401 for an expired bearer token,
\* 404 when no user has the token's subject, else the user.
Caller(tok) ==
    IF ~TokenLive(tok) THEN [status |-> 401, detail |-> "Token has expired", user |-> {}]
    ELSE IF UserByEmail(tok.sub) = {}
    THEN [status |-> 404, detail |-> "User not found", user |-> {}]
    ELSE [status |-> 200, detail |-> "", user |-> UserByEmail(tok.sub)]

create_wallpaper(K, tok, prompt, size, style) ==
    LET caller == Caller(tok)
    IN  /\ InFlight < K
        /\ UNCHANGED <<authVars, now, ticks, files>>
        /\ IF caller.user = {}
           THEN /\ resp' = Response("create", caller.status, caller.detail, <<tok.sub>>, NoBody)
                /\ UNCHANGED <<wallpapers, tasks, created>>
           ELSE \E user \in caller.user :
                LET job == NewJob(created + 1, user.id, prompt, size, style)
                IN  /\ created < MaxJobs
                    /\ created' = created + 1
                    /\ wallpapers' = wallpapers \cup {job}
                    /\ tasks' = tasks \cup {NewTask(job)}
                    /\ resp' = Response("create", 200, "", <<tok.sub>>, job)

\* (variant: the job is looked up by its id alone, whoever owns it)
OwnJobAnyOwner(user, wallpaper_id) ==
    JobById(wallpaper_id)

\* the original addressed by the path, when it exists and is the caller's
OwnJob(user, wallpaper_id) ==
    { w \in JobById(wallpaper_id) : w.user_id = user.id }

\* (variant: the original row is reset to pending and generated again)
recreate_wallpaperInPlace(K, tok, wallpaper_id) ==
    LET caller == Caller(tok)
    IN  /\ InFlight < K
        /\ UNCHANGED <<authVars, now, ticks, files>>
        /\ IF caller.user = {}
           THEN /\ resp' = Response("recreate", caller.status, caller.detail,
                                    <<tok.sub, wallpaper_id>>, NoBody)
                /\ UNCHANGED <<wallpapers, tasks, created>>
           ELSE \E user \in caller.user :
                IF OwnJob(user, wallpaper_id) = {}
                THEN /\ resp' = Response("recreate", 404, "Wallpaper not found",
                                         <<tok.sub, wallpaper_id>>, NoBody)
                     /\ UNCHANGED <<wallpapers, tasks, created>>
                ELSE \E original \in OwnJob(user, wallpaper_id) :
                     LET job == NewJob(original.id, user.id, original.prompt,
                                       original.size, original.style)
                     IN  /\ created < MaxJobs
                         /\ created' = created + 1
                         /\ wallpapers' = Replace(wallpapers, original, job)
                         /\ tasks' = tasks \cup {NewTask(job)}
                         /\ resp' = Response("recreate", 200, "",
                                             <<tok.sub, wallpaper_id>>, job)

recreate_wallpaper(K, tok, wallpaper_id) ==
    LET caller == Caller(tok)
    IN  /\ InFlight < K
        /\ UNCHANGED <<authVars, now, ticks, files>>
        /\ IF caller.user = {}
           THEN /\ resp' = Response("recreate", caller.status, caller.detail,
                                    <<tok.sub, wallpaper_id>>, NoBody)
                /\ UNCHANGED <<wallpapers, tasks, created>>
           ELSE \E user \in caller.user :
                IF OwnJob(user, wallpaper_id) = {}
                THEN /\ resp' = Response("recreate", 404, "Wallpaper not found",
                                         <<tok.sub, wallpaper_id>>, NoBody)
                     /\ UNCHANGED <<wallpapers, tasks, created>>
                ELSE \E original \in OwnJob(user, wallpaper_id) :
                     LET job == NewJob(created + 1, user.id, original.prompt,
                                       original.size, original.style)
                     IN  /\ created < MaxJobs
                         /\ created' = created + 1
                         /\ wallpapers' = wallpapers \cup {job}
                         /\ tasks' = tasks \cup {NewTask(job)}
                         /\ resp' = Response("recreate", 200, "",
                                             <<tok.sub, wallpaper_id>>, job)

\* (variant: the listing leaves out the jobs that are still pending)
ListedFinished(uid) ==
    { [ id |-> w.id, prompt |-> w.prompt, size |-> w.size, style |-> w.style,
        status |-> w.status, image_url |-> w.image_url,
        full_image_url |-> IF w.image_url # NoFile
                           THEN <<"static/wallpapers/", w.image_url>> ELSE <<>> ]
      : w \in { x \in JobsOf(uid) : x.status # "pending" } }

\* the rows list_wallpapers returns, full_image_url set where image_url is
Listed(uid) ==
    { [ id |-> w.id, prompt |-> w.prompt, size |-> w.size, style |-> w.style,
        status |-> w.status, image_url |-> w.image_url,
        full_image_url |-> IF w.image_url # NoFile
                           THEN <<"static/wallpapers/", w.image_url>> ELSE <<>> ]
      : w \in JobsOf(uid) }

list_wallpapers(K, tok) ==
    LET caller == Caller(tok)
    IN  /\ InFlight < K
        /\ UNCHANGED <<authVars, now, ticks, jobVars>>
        /\ IF caller.user = {}
           THEN resp' = Response("list", caller.status, caller.detail, <<tok.sub>>, NoBody)
           ELSE \E user \in caller.user :
                resp' = Response("list", 200, "", <<tok.sub>>, Listed(user.id))

\* delete_wallpaper builds WallpaperResponseSchema(id, prompt, size, style,
\* created_at) before it touches the file or the row; the schema's field
\* status is required (schemas.py), so the constructor raises pydantic's
\* ValidationError, a ValueError, which the ValueError handler answers with
\* 400.  What follows the constructor is not reached.
delete_wallpaper(K, tok, wallpaper_id) ==
    LET caller == Caller(tok)
    IN  /\ InFlight < K
        /\ UNCHANGED <<authVars, now, ticks, jobVars>>
        /\ IF caller.user = {}
           THEN resp' = Response("delete", caller.status, caller.detail,
                                 <<tok.sub, wallpaper_id>>, NoBody)
           ELSE \E user \in caller.user :
                IF OwnJob(user, wallpaper_id) = {}
                THEN resp' = Response("delete", 404, "Wallpaper not found",
                                      <<tok.sub, wallpaper_id>>, NoBody)
                ELSE resp' = Response("delete", 400, "ValidationError: status Field required",
                                      <<tok.sub, wallpaper_id>>, NoBody)

download_wallpaper(K, tok, wallpaper_id) ==
    LET caller == Caller(tok)
    IN  /\ InFlight < K
        /\ UNCHANGED <<authVars, now, ticks, jobVars>>
        /\ IF caller.user = {}
           THEN resp' = Response("download", caller.status, caller.detail,
                                 <<tok.sub, wallpaper_id>>, NoBody)
           ELSE \E user \in caller.user :
                IF OwnJob(user, wallpaper_id) = {}
                THEN resp' = Response("download", 404, "Wallpaper not found",
                                      <<tok.sub, wallpaper_id>>, NoBody)
                ELSE \E wallpaper \in OwnJob(user, wallpaper_id) :
                     IF wallpaper.image_url = NoFile
                     THEN resp' = Response("download", 400, "Wallpaper image not generated yet",
                                           <<tok.sub, wallpaper_id>>, NoBody)
                     ELSE IF wallpaper.image_url \notin files
                     THEN resp' = Response("download", 404, "Image file not found on server",
                                           <<tok.sub, wallpaper_id>>, NoBody)
                     ELSE resp' = Response("download", 200, "image/webp",
                                           <<tok.sub, wallpaper_id>>, wallpaper.image_url)

(* The deferred generation step, generate_wallpaper_image.                 *)
\* the row lookup, then the call of the provider
GenStart(t) ==
    /\ t.pc = "scheduled"
    /\ UNCHANGED <<authVars, now, ticks, resp, wallpapers, files, created>>
    /\ IF JobById(t.wallpaper_id) = {}
       THEN tasks' = tasks \ {t}
       ELSE tasks' = Replace(tasks, t,
                [ wallpaper_id |-> t.wallpaper_id, prompt |-> t.prompt, size |-> t.size,
                  style |-> t.style, pc |-> "calling",
                  input |-> ProviderInput(t.prompt, t.size, t.style) ])

\* What replicate_client.run and file_obj.read() can do
ProviderOutcomes == { "bytes", "raises", "empty", "not a list", "read raises" }

\* (variant: an UPDATE without the WHERE clause)
SetJobEveryRow(id, status, image_url) ==
    { [w EXCEPT !.status = status, !.image_url = image_url] : w \in wallpapers }

\* (variant: the step's UPDATE is never flushed)
SetJobDropped(id, status, image_url) ==
    wallpapers

\* (variant: the UPDATE writes the status and leaves image_url as it is)
SetJobStatusOnly(id, status, image_url) ==
    { IF w.id = id THEN [w EXCEPT !.status = status] ELSE w : w \in wallpapers }

\* the UPDATE of the job's row at db.commit()
SetJob(id, status, image_url) ==
    { IF w.id = id THEN [w EXCEPT !.status = status, !.image_url = image_url] ELSE w
      : w \in wallpapers }

\* the file name is a fresh uuid4; a step writes one file, so the job's id
\* stands for it
GenFinish(t, outcome) ==
    /\ t.pc = "calling"
    /\ tasks' = tasks \ {t}
    /\ UNCHANGED <<authVars, now, ticks, created>>
    /\ LET wrote == outcome = "bytes"
           gone == JobById(t.wallpaper_id) = {}
       IN  /\ files' = IF wrote THEN files \cup {t.wallpaper_id} ELSE files
           /\ IF gone
              THEN /\ resp' = Response("generate", 0, "StaleDataError",
                                       <<t.wallpaper_id>>, outcome)
                   /\ UNCHANGED wallpapers
              ELSE /\ wallpapers' =
                         IF wrote THEN SetJob(t.wallpaper_id, "completed", t.wallpaper_id)
                         ELSE SetJob(t.wallpaper_id, "failed",
                                     (CHOOSE w \in JobById(t.wallpaper_id) : TRUE).image_url)
                   /\ resp' = Response("generate", 0, "returned", <<t.wallpaper_id>>, outcome)

(* --------------------------- specifications ---------------------------- *)
\* the spellings of one address
OneEmail == { e \in EmailInputs : NormEmail(e) = <<"a", "@", "x">> }

\* the addresses the code requests are made for: the account's, in another
\* spelling, and one that has no account
CodeEmails == { <<"A", "@", "X">>, <<"b", "@", "x">> }

(* Spec: one account, its verification and reset codes and the clock, one  *)
(* request at a time.                                                      *)
Next ==
    \/ Tick
    \/ \E u \in UsernameInputs, e \in OneEmail, c \in IssuedCodes :
          RegisterBegin(1, u, e, "passw0rd", c)
    \/ \E r \in reqs : RegisterCommit(r)
    \/ \E e \in CodeEmails, c \in SubmittedCodes : verify_email(1, e, c)
    \/ \E e \in CodeEmails, c \in IssuedCodes : resend_verification_code(1, e, c)
    \/ \E e \in CodeEmails, c \in IssuedCodes : forgot_password(1, e, c)
    \/ \E e \in CodeEmails, c \in SubmittedCodes : reset_password(1, e, c, "s3cretpw")

Spec == Init /\ [][Next]_vars

(* SpecLogin: every request of auth_routes.py and user_routes.py, one at a *)
(* time, with the clock stopped and one issued code.                       *)
OneCode == { CodeMin }

TriedCodes == { CodeMin, CodeMax }

\* the display names of the sign-ins: none, or a username in use
SignInNames == { NoName, <<"a", "l", "i">> }

NextLogin ==
    \/ \E u \in UsernameInputs, e \in OneEmail, c \in OneCode :
          RegisterBegin(1, u, e, "passw0rd", c)
    \/ \E r \in reqs : RegisterCommit(r)
    \/ \E e \in EmailInputs, c \in TriedCodes : verify_email(1, e, c)
    \/ \E e \in EmailInputs, c \in OneCode : resend_verification_code(1, e, c)
    \/ \E e \in EmailInputs, p \in Passwords : LoginBegin(1, e, p)
    \/ \E r \in reqs : TokenCommit(r)
    \/ \E v \in 0..minted, aware \in BOOLEAN : refresh_access_token(1, v, aware)
    \/ \E e \in EmailInputs, c \in OneCode : forgot_password(1, e, c)
    \/ \E e \in EmailInputs, c \in TriedCodes, p \in Passwords : reset_password(1, e, c, p)
    \/ \E idinfo \in GoogleTokens, name \in SignInNames : GoogleBegin(1, idinfo, name)
    \/ \E r \in reqs : GoogleInsert(r)
    \/ \E v \in 0..minted : LogoutBegin(1, v)
    \/ \E r \in reqs : LogoutCommit(r)
    \/ \E tok \in access, u \in UsernameInputs \cup {NoUsername} : ProfileBegin(1, tok, u)
    \/ \E r \in reqs : ProfileCommit(r)
    \/ \E tok \in access, old \in Passwords, p \in Passwords : update_password(1, tok, old, p)

SpecLogin == Init /\ [][NextLogin]_vars

\* the Google tokens that pass verification, issuer and email checks
AcceptedTokens ==
    { t \in GoogleTokens :
         t.verifies /\ t.iss = "accounts.google.com" /\ t.email # <<>> }

(* SpecSignup: the requests that store or rename a user (register, Google  *)
(* sign-in, profile update after verify and login), one at a time.         *)
NextSignup ==
    \/ \E u \in UsernameInputs, e \in EmailInputs, c \in OneCode :
          RegisterBegin(1, u, e, "passw0rd", c)
    \/ \E r \in reqs : RegisterCommit(r)
    \/ \E e \in CodeEmails, c \in OneCode : verify_email(1, e, c)
    \/ \E e \in CodeEmails : LoginBegin(1, e, "passw0rd")
    \/ \E r \in reqs : TokenCommit(r)
    \/ \E idinfo \in AcceptedTokens, name \in GoogleNames : GoogleBegin(1, idinfo, name)
    \/ \E r \in reqs : GoogleInsert(r)
    \/ \E tok \in access, u \in UsernameInputs : ProfileBegin(1, tok, u)
    \/ \E r \in reqs : ProfileCommit(r)

SpecSignup == Init /\ [][NextSignup]_vars

(* SpecRace: two requests in flight among register, verify, login, Google  *)
(* sign-in, logout and profile update.                                     *)
\* the usernames of the racing requests: one padded, one plain
RaceUsernames == { <<" ", "a", "l", "i">>, <<"b", "o", "b">> }

NextRace ==
    \/ \E u \in RaceUsernames, e \in EmailInputs, c \in OneCode :
          RegisterBegin(2, u, e, "passw0rd", c)
    \/ \E r \in reqs : RegisterCommit(r)
    \/ \E e \in CodeEmails, c \in OneCode : verify_email(2, e, c)
    \/ \E e \in CodeEmails : LoginBegin(2, e, "passw0rd")
    \/ \E r \in reqs : TokenCommit(r)
    \/ \E idinfo \in AcceptedTokens, name \in SignInNames : GoogleBegin(2, idinfo, name)
    \/ \E r \in reqs : GoogleInsert(r)
    \/ \E v \in 1..minted : LogoutBegin(2, v)
    \/ \E r \in reqs : LogoutCommit(r)
    \/ \E tok \in access, u \in RaceUsernames : ProfileBegin(2, tok, u)
    \/ \E r \in reqs : ProfileCommit(r)

SpecRace == Init /\ [][NextRace]_vars

(* SpecSession: the token requests (login, refresh, Google sign-in, logout) *)
(* for one registered address and the Google tokens, one at a time, with   *)
(* the clock.                                                              *)
NextSession ==
    \/ \E c \in OneCode :
          RegisterBegin(1, <<"a", "l", "i">>, <<"A", "@", "X">>, "passw0rd", c)
    \/ \E r \in reqs : RegisterCommit(r)
    \/ \E e \in CodeEmails, c \in OneCode : verify_email(1, e, c)
    \/ \E e \in CodeEmails, p \in Passwords : LoginBegin(1, e, p)
    \/ \E r \in reqs : TokenCommit(r)
    \/ \E v \in 0..minted, aware \in BOOLEAN : refresh_access_token(1, v, aware)
    \/ \E idinfo \in GoogleTokens : GoogleBegin(1, idinfo, NoName)
    \/ \E r \in reqs : GoogleInsert(r)
    \/ \E v \in 0..minted : LogoutBegin(1, v)
    \/ \E r \in reqs : LogoutCommit(r)
    \/ TickDays

SpecSession == Init /\ [][NextSession]_vars

(* SpecMail: the requests that issue a code, each followed by its deferred  *)
(* code mail, for one account.                                             *)
NextMail ==
    \/ Tick
    \/ \E c \in IssuedCodes :
          RegisterBegin(1, <<"a", "l", "i">>, <<"A", "@", "X">>, "passw0rd", c)
    \/ \E r \in reqs : RegisterCommit(r)
    \/ \E e \in CodeEmails, c \in IssuedCodes : verify_email(1, e, c)
    \/ \E e \in CodeEmails, c \in IssuedCodes : resend_verification_code(1, e, c)
    \/ \E e \in CodeEmails, c \in IssuedCodes : forgot_password(1, e, c)
    \/ \E outcome \in MailOutcomes : SendMail(outcome)

SpecMail == Init /\ [][NextMail]_vars

(* SpecJobs: the wallpaper routes with the deferred generation step, for   *)
(* two callers who have signed in through Google (InitJobs is a state     *)
(* that SpecLogin, SpecSignup and SpecRace reach).                         *)
Alice == WithId(NewGoogleUser(<<"a">>, <<"a", "@", "x">>), 1)

Bob == WithId(NewGoogleUser(<<"b">>, <<"b", "@", "x">>), 2)

SessionOf(user, value) ==
    [ id |-> value, user_id |-> user.id, token |-> value, expires_at |-> RefreshTTL ]

SignedIn ==
    /\ users = {Alice, Bob}
    /\ refresh_tokens = {SessionOf(Alice, 1), SessionOf(Bob, 2)}
    /\ access = { [sub |-> Alice.email, exp |-> AccessTTL],
                  [sub |-> Bob.email, exp |-> AccessTTL] }
    /\ now = 0
    /\ reqs = {}

InitJobs ==
    /\ SignedIn
    /\ signups = {}
    /\ ticks = 0
    /\ minted = 2
    /\ resp = Response("google", 200, "bearer", <<Bob.email>>,
                       [access_token |-> [sub |-> Bob.email, exp |-> AccessTTL],
                        refresh_token |-> 2])
    /\ wallpapers = {}
    /\ files = {}
    /\ tasks = {}
    /\ created = 0

\* the size and style choices submitted
Orders == { <<"1:1", "Nature">>, <<"2:3 Portrait", "Anime">>, <<"4:5", "Anime">> }

JobIds == 1..(MaxJobs + 1)

NextJobs ==
    \/ \E tok \in access, p \in Prompts, o \in Orders :
          create_wallpaper(1, tok, p, o[1], o[2])
    \/ \E tok \in access, id \in JobIds : recreate_wallpaper(1, tok, id)
    \/ \E tok \in access : list_wallpapers(1, tok)
    \/ \E tok \in access, id \in JobIds : delete_wallpaper(1, tok, id)
    \/ \E tok \in access, id \in JobIds : download_wallpaper(1, tok, id)
    \/ \E t \in tasks : GenStart(t)
    \/ \E t \in tasks, outcome \in ProviderOutcomes : GenFinish(t, outcome)

SpecJobs == InitJobs /\ [][NextJobs]_vars

(* SpecGen: one caller submits and recreates jobs; the deferred generation *)
(* step of every scheduled job is run (BackgroundTasks runs each added     *)
(* task once the response is sent) and every provider call returns or      *)
(* raises, which is weak fairness of the two halves of the step, per job.  *)
AliceToken == [sub |-> Alice.email, exp |-> AccessTTL]

NextGen ==
    \/ \E p \in Prompts, o \in Orders : create_wallpaper(1, AliceToken, p, o[1], o[2])
    \/ \E id \in JobIds : recreate_wallpaper(1, AliceToken, id)
    \/ \E t \in tasks : GenStart(t)
    \/ \E t \in tasks, outcome \in ProviderOutcomes : GenFinish(t, outcome)

SpecGen ==
    /\ InitJobs
    /\ [][NextGen]_vars
    /\ \A id \in JobIds :
          /\ WF_vars(\E t \in tasks : t.wallpaper_id = id /\ GenStart(t))
          /\ WF_vars(\E t \in tasks, outcome \in ProviderOutcomes :
                        t.wallpaper_id = id /\ GenFinish(t, outcome))

(* SpecFlag: the routes that write a local user's row, with refresh and    *)
(* the clock that lets the codes expire, for one registered address.       *)
NextFlag ==
    \/ Tick
    \/ \E c \in OneCode :
          RegisterBegin(1, <<"a", "l", "i">>, <<"A", "@", "X">>, "passw0rd", c)
    \/ \E r \in reqs : RegisterCommit(r)
    \/ \E e \in CodeEmails, c \in TriedCodes : verify_email(1, e, c)
    \/ \E e \in CodeEmails, c \in OneCode : resend_verification_code(1, e, c)
    \/ \E e \in CodeEmails, c \in OneCode : forgot_password(1, e, c)
    \/ \E e \in CodeEmails, c \in TriedCodes, p \in Passwords : reset_password(1, e, c, p)
    \/ \E e \in CodeEmails, p \in Passwords : LoginBegin(1, e, p)
    \/ \E r \in reqs : TokenCommit(r)
    \/ \E v \in 0..minted, aware \in BOOLEAN : refresh_access_token(1, v, aware)
    \/ \E tok \in access, old \in Passwords, p \in Passwords : update_password(1, tok, old, p)

SpecFlag == Init /\ [][NextFlag]_vars

(* ------------------------------- claims -------------------------------- *)
\* the Conflict failure of register_user
Conflict(r) ==
    /\ r.op = "register" /\ r.status = 400
    /\ r.detail \in {"Email already registered", "Username already taken"}

\* a step that answers a register request without a commit, or puts one in
\* flight
RegisterBegan ==
    \/ reqs' = reqs /\ resp'.op = "register"
    \/ \E r \in reqs' \ reqs : r.op = "register"

\* C1 as stated: after a register request has succeeded with email e and
\* username u, every later register request whose email is e after
\* lower-casing and trimming, or whose username is u, is rejected with
\* Conflict and creates no user record.
C1_EveryLaterRegister ==
    [][ RegisterBegan =>
          \A u \in UsernameInputs, e \in EmailInputs :
             ( /\ \E s \in signups : s.email = Lower(Strip(e)) \/ s.username = Strip(u)
               /\ RegisterBegin(1, u, e, "passw0rd", CodeMin) )
             => Conflict(resp') /\ users' = users /\ reqs' = reqs ]_vars

\* C1 amended: a register request whose email, lower-cased and trimmed, is
\* the email of a stored user, or whose username is the username a stored
\* user has at that time, is rejected with Conflict and creates no user
\* record; the email of a successful signup stays stored, its username only
\* until a profile update changes it.
C1_DuplicateRejected ==
    [][ /\ RegisterBegan =>
             \A u \in UsernameInputs, e \in EmailInputs :
                ( /\ \E x \in users :
                        Lower(x.email) = Lower(Strip(e)) \/ x.username = Strip(u)
                  /\ RegisterBegin(1, u, e, "passw0rd", CodeMin) )
                => Conflict(resp') /\ users' = users /\ reqs' = reqs
        /\ \A s \in signups : \E x \in users' : x.email = s.email ]_vars

\* a signup in another spelling of a registered address was answered with
\* Conflict, and so was one with a registered username and a new address
C1_Witness ==
    /\ Conflict(resp)
    /\ resp.detail = "Username already taken"
    /\ \E s \in signups : s.username = resp.key[2] /\ s.email # resp.key[1]
    /\ \E x \in users : x.username = resp.key[2]
    /\ Cardinality(users) = 1

\* C2 as stated: a login or forgot-password request for a user whose
\* provider is google is answered with the ProviderMismatch failure, whatever
\* the password, and without reaching the password-hash comparison.
C2_GoogleUserProviderMismatch ==
    [][ \A e \in EmailInputs :
          (\E g \in UserByEmail(NormEmail(e)) : g.provider = "google")
          => /\ \A p \in Passwords :
                   LoginBegin(1, e, p)
                   => /\ resp'.status = 400
                      /\ resp'.detail =
                            "This email uses Google Sign-In. Please sign in with Google."
                      /\ ~resp'.body.compared
             /\ \A c \in OneCode :
                   forgot_password(1, e, c)
                   => /\ resp'.status = 400
                      /\ resp'.detail =
                            "This account uses Google Sign-In and does not have a password."
                      /\ users' = users ]_vars

VerifySuccess == "Email verified successfully"

ResetSuccess == "Password reset successful. You can now log in."

\* a request of kind op for the address e has just issued the code new
Issued(op, e, new) ==
    /\ resp'.op = op /\ resp'.status = 200 /\ resp'.body # NoBody
    /\ resp'.key = <<NormEmail(e)>>
    /\ resp'.body.code = new

\* C3 as stated: once resend-code (for an unverified user) or forgot-password
\* (for a local user) has issued a new code, a verify / reset-password request
\* that submits the code stored before fails, also while that code's expiry
\* has not passed.
C3_OldCodeInvalidated ==
    [][ (resp'.op \in {"resend", "forgot"} /\ resp'.status = 200) =>
        \A e \in CodeEmails, old \in IssuedCodes, new \in IssuedCodes :
          /\ ( /\ Issued("resend", e, new)
               /\ \E u \in UserByEmail(NormEmail(e)) : u.verification_code = old
               /\ resend_verification_code(1, e, new) )
             => (VerifyOutcome(NormEmail(e), old) # VerifySuccess)'
          /\ ( /\ Issued("forgot", e, new)
               /\ \E u \in UserByEmail(NormEmail(e)) : u.reset_code = old
               /\ forgot_password(1, e, new) )
             => (ResetOutcome(NormEmail(e), old) # ResetSuccess)' ]_vars

\* C3 amended: the newly issued code replaces the stored one, so the code
\* stored before fails from then on whenever the new code differs from it
\* (the new code is drawn independently and may be the same number).
C3_OldCodeReplaced ==
    [][ (resp'.op \in {"resend", "forgot"} /\ resp'.status = 200) =>
        \A e \in CodeEmails, old \in IssuedCodes, new \in IssuedCodes :
          /\ ( /\ Issued("resend", e, new)
               /\ \E u \in UserByEmail(NormEmail(e)) : u.verification_code = old
               /\ resend_verification_code(1, e, new) )
             => /\ \A u \in UserByEmail(NormEmail(e))' : u.verification_code = new
                /\ new # old => (VerifyOutcome(NormEmail(e), old) # VerifySuccess)'
          /\ ( /\ Issued("forgot", e, new)
               /\ \E u \in UserByEmail(NormEmail(e)) : u.reset_code = old
               /\ forgot_password(1, e, new) )
             => /\ \A u \in UserByEmail(NormEmail(e))' : u.reset_code = new
                /\ new # old => (ResetOutcome(NormEmail(e), old) # ResetSuccess)' ]_vars

\* resend-code has just stored the code it mailed, at time 0, when the code
\* that register issued has not expired
C3_Witness ==
    /\ resp.op = "resend" /\ resp.status = 200 /\ resp.body # NoBody
    /\ now = 0 /\ ticks = 0
    /\ resp.body.code # CodeMin
    /\ \E u \in UserByEmail(resp.body.to) :
          /\ ~u.is_verified /\ u.verification_code = resp.body.code
          /\ u.verification_expires_at = CodeTTL

\* C4: for an existing unverified user, verify succeeds exactly when the
\* submitted code equals the stored one and now <= expiry (the expiry instant
\* included); success sets the verified flag and clears code and expiry;
\* every other case answers 400 "Invalid or expired verification code" and
\* leaves the users table as it was.
C4_VerifyIff ==
    [][ resp'.op = "verify" =>
        \A e \in CodeEmails, c \in SubmittedCodes :
          \A u \in UserByEmail(NormEmail(e)) :
             ( /\ resp'.op = "verify" /\ resp'.key = <<u.email>>
               /\ ~u.is_verified
               /\ verify_email(1, e, c) )
             => IF /\ u.verification_code # NoCode
                   /\ u.verification_code = c
                   /\ u.verification_expires_at # NoTime
                   /\ now <= u.verification_expires_at
                THEN /\ resp'.status = 200 /\ resp'.detail = VerifySuccess
                     /\ users' = (users \ {u}) \cup
                           {[u EXCEPT !.is_verified = TRUE, !.verification_code = NoCode,
                                      !.verification_expires_at = NoTime]}
                ELSE /\ resp'.status = 400
                     /\ resp'.detail = "Invalid or expired verification code"
                     /\ users' = users ]_vars

\* a verify request has succeeded after one step of the clock, of the life
\* of a code: at the expiry instant of the code issued at time 0
C4_Witness ==
    /\ resp.op = "verify" /\ resp.status = 200 /\ resp.detail = VerifySuccess
    /\ now = CodeTTL /\ ticks = 1
    /\ \E u \in UserByEmail(resp.key[1]) :
          /\ u.is_verified /\ u.verification_code = NoCode
          /\ u.verification_expires_at = NoTime

\* C5: a login that succeeds while the user has a stored refresh token (from
\* an earlier login) leaves exactly one stored token for that user, the one
\* this login returns, and from then on a refresh request with the earlier
\* token is answered "Invalid refresh token".
C5_SecondLoginReplaces ==
    [][ \A r \in reqs \ reqs' :
          (r.op = "token" /\ r.via = "login")
          => /\ resp'.op = "login" /\ resp'.status = 200
             /\ resp'.body.refresh_token = r.token
             /\ Cardinality({ t \in refresh_tokens' : t.user_id = r.user_id }) = 1
             /\ \A t \in refresh_tokens' : t.user_id = r.user_id => t.token = r.token
             /\ \A old \in TokenByUser(r.user_id) :
                   /\ old.token # r.token
                   /\ \A aware \in BOOLEAN :
                         (RefreshOutcome(old.token, aware))' = "Invalid refresh token" ]_vars

\* the second login of a user has returned token 2 and the user's one row
\* (the row the first login inserted) holds it
C5_Witness ==
    /\ resp.op = "login" /\ resp.status = 200 /\ resp.body.refresh_token = 2
    /\ \E u \in UserByEmail(resp.key[1]) :
          /\ u.provider = "local"
          /\ TokenByUser(u.id) = {[id |-> 1, user_id |-> u.id, token |-> 2,
                                   expires_at |-> now + RefreshTTL]}

\* C6 as stated: under any interleaving of login, Google sign-in and logout
\* (two requests in flight), each user has at most one stored refresh token,
\* and every login or Google sign-in that passed its credential checks
\* returns a token pair.
C6_TokensUnderInterleaving ==
    [][ /\ \A u \in users' : Cardinality({ t \in refresh_tokens' : t.user_id = u.id }) <= 1
        /\ \A r \in reqs \ reqs' :
              r.op = "token"
              => /\ resp'.status = 200
                 /\ resp'.body = [access_token |-> r.access_token,
                                  refresh_token |-> r.token] ]_vars

\* C7 as stated: under any interleaving of register, Google sign-in and
\* profile update (two requests in flight), no two stored users have the
\* same username or the same email ignoring case, and a request that loses
\* the race is rejected with Conflict.
C7_UniqueAndConflict ==
    [][ /\ \A a \in users', b \in users' :
              (a.username = b.username \/ Lower(a.email) = Lower(b.email)) => a = b
        /\ \A r \in reqs \ reqs' :
              /\ r.op = "register" => resp'.status = 200 \/ Conflict(resp')
              /\ r.op = "google_insert" => users' # users \/ resp'.status = 400
              /\ r.op = "profile" => resp'.status \in {200, 400} ]_vars

\* C8: in every reachable state a user whose provider is google has no
\* password hash and is verified, and a user whose provider is local has a
\* password hash.
C8_ProviderPassword ==
    \A u \in users :
       /\ u.provider \in {"google", "local"}
       /\ u.provider = "google" => u.hashed_password = NoHash /\ u.is_verified
       /\ u.provider = "local" => u.hashed_password # NoHash

\* a Google user's update-password request was refused while a local user,
\* whose password a reset has replaced, is stored next to them
C8_Witness ==
    /\ resp.op = "password" /\ resp.status = 400
    /\ \E g \in UserByEmail(resp.key[1]) : g.provider = "google"
    /\ \E u \in users : u.provider = "local" /\ u.hashed_password = hash_password("s3cretpw")

\* C9: the status and the image reference of a stored job change only in
\* the deferred generation step of that job, only from pending, and only to
\* completed or failed; no request handler changes them.
C9_StatusWrittenOnce ==
    [][ \A w \in wallpapers : \A x \in wallpapers' :
          (x.id = w.id /\ (x.status # w.status \/ x.image_url # w.image_url))
          => /\ w.status = "pending"
             /\ x.status \in {"completed", "failed"}
             /\ resp'.op = "generate" /\ resp'.key = <<w.id>>
             /\ \E t \in tasks \ tasks' : t.wallpaper_id = w.id /\ t.pc = "calling" ]_vars

\* one job is completed, another failed, and a request handler has run
\* after both generation steps
C9_Witness ==
    /\ \E w \in wallpapers : w.status = "completed"
    /\ \E w \in wallpapers : w.status = "failed"
    /\ tasks = {}
    /\ resp.op \in {"delete", "download"} /\ resp.status \in {200, 400}

\* C10: a submit returns the new job pending and without image reference,
\* a list request shows every job of the caller as it is stored, pending and
\* without image reference as long as its generation step has not run; the
\* step that gets image bytes from the provider leaves the job completed
\* with an image reference that is a stored file, the step whose provider
\* call raises leaves it failed without image reference.
C10_SubmitListGenerate ==
    [][ /\ \A w \in wallpapers' :
              (\A x \in wallpapers : x.id # w.id)
              => /\ resp'.status = 200 /\ resp'.body = w
                 /\ w.status = "pending" /\ w.image_url = NoFile
                 /\ \E t \in tasks' : t.wallpaper_id = w.id /\ t.pc = "scheduled"
        /\ \A tok \in access :
              (resp'.op = "list" /\ resp'.status = 200 /\ list_wallpapers(1, tok))
              => \A u \in UserByEmail(tok.sub) :
                    /\ \A w \in wallpapers :
                          w.user_id = u.id
                          => \E row \in resp'.body :
                                /\ row.id = w.id /\ row.status = w.status
                                /\ row.image_url = w.image_url
                                /\ (\E t \in tasks : t.wallpaper_id = w.id)
                                   => row.status = "pending" /\ row.image_url = NoFile
                                /\ row.status = "completed"
                                   => row.image_url \in files /\ row.full_image_url # <<>>
                                /\ row.status = "failed" => row.image_url = NoFile
                    /\ \A row \in resp'.body :
                          \E w \in wallpapers : w.id = row.id /\ w.user_id = u.id
        /\ \A t \in tasks \ tasks' :
              t.pc = "calling"
              => \A w \in wallpapers' :
                    w.id = t.wallpaper_id
                    => /\ resp'.body = "bytes"
                          => /\ w.status = "completed"
                             /\ w.image_url # NoFile /\ w.image_url \in files'
                       /\ resp'.body = "raises"
                          => w.status = "failed" /\ w.image_url = NoFile ]_vars

\* a list request shows one job of the caller completed with its file
\* stored and another failed without image reference
C10_Witness ==
    /\ resp.op = "list" /\ resp.status = 200
    /\ \E row \in resp.body :
          row.status = "completed" /\ row.image_url \in files /\ row.full_image_url # <<>>
    /\ \E row \in resp.body : row.status = "failed" /\ row.image_url = NoFile

\* C11: a login request puts a token pair in preparation exactly when a
\* stored user has the submitted address, provider local, the verified flag
\* and a password hash that the submitted password matches; any other login
\* request is rejected (400 or 403) and leaves every stored refresh token
\* and every access token as it was.  The commit of a login stores the
\* returned refresh token as the one token of that local, verified user and
\* leaves the tokens of the other users unchanged.
C11_LoginOnlyWhenEntitled ==
    [][ (resp'.op = "login" \/ reqs' # reqs) =>
        /\ \A e \in CodeEmails, p \in Passwords :
              LoginBegin(1, e, p)
              => IF \E u \in users :
                       /\ u.email = Strip(Lower(e)) /\ u.provider = "local"
                       /\ u.is_verified /\ u.hashed_password = <<"bcrypt", p>>
                 THEN /\ \E r \in reqs' \ reqs :
                            /\ r.op = "token" /\ r.via = "login"
                            /\ r.access_token.sub = Strip(Lower(e))
                      /\ refresh_tokens' = refresh_tokens
                 ELSE /\ resp'.op = "login" /\ resp'.status \in {400, 403}
                      /\ reqs' = reqs
                      /\ refresh_tokens' = refresh_tokens /\ access' = access
        /\ \A r \in reqs \ reqs' :
              (r.op = "token" /\ r.via = "login")
              => /\ \E u \in users :
                       /\ u.id = r.user_id /\ u.email = r.access_token.sub
                       /\ u.provider = "local" /\ u.is_verified
                 /\ resp'.status = 200
                 /\ resp'.body = [access_token |-> r.access_token, refresh_token |-> r.token]
                 /\ r.access_token \in access'
                 /\ \E t \in refresh_tokens' : t.user_id = r.user_id /\ t.token = r.token
                 /\ { t \in refresh_tokens' : t.user_id # r.user_id }
                       = { t \in refresh_tokens : t.user_id # r.user_id } ]_vars

\* a login has returned a token pair to a local, verified user while a
\* Google user's stored refresh token is still the one their sign-in stored
C11_Witness ==
    /\ resp.op = "login" /\ resp.status = 200
    /\ \E u \in UserByEmail(resp.key[1]) :
          /\ u.provider = "local" /\ u.is_verified
          /\ \E t \in TokenByUser(u.id) : t.token = resp.body.refresh_token
    /\ \E g \in users :
          /\ g.provider = "google"
          /\ \E t \in TokenByUser(g.id) : t.token # resp.body.refresh_token

\* C12 as stated: a refresh request with value t is answered 401 "Invalid
\* refresh token" when no stored token has value t, 401 "Expired refresh
\* token" when the stored token's expiry is earlier than the current time,
\* and otherwise 200 with a new access token whose subject is the email of
\* the user that owns the stored token.
C12_RefreshOutcomes ==
    [][ resp'.op = "refresh" =>
        \A v \in 0..minted, aware \in BOOLEAN :
           refresh_access_token(1, v, aware)
           => IF TokenByValue(v) = {}
              THEN resp'.status = 401 /\ resp'.detail = "Invalid refresh token"
              ELSE \A rt \in TokenByValue(v) :
                      IF rt.expires_at < now
                      THEN resp'.status = 401 /\ resp'.detail = "Expired refresh token"
                      ELSE /\ resp'.status = 200
                           /\ \E u \in users :
                                 /\ u.id = rt.user_id
                                 /\ resp'.body.access_token.sub = u.email
                                 /\ resp'.body.access_token \in access' ]_vars

\* C13: a refresh request, answered with success or failure, leaves the
\* stored refresh tokens and the users as they were, a successful one returns
\* the value submitted, and what a refresh request with any value is
\* answered is the same after it as before: the token is not used up.  A
\* stored token value stops being stored only when a login or Google sign-in
\* of its owner commits or a logout of that value commits.
C13_RefreshKeepsToken ==
    [][ /\ resp'.op = "refresh" =>
             \A v \in 0..minted, aware \in BOOLEAN :
                refresh_access_token(1, v, aware)
                => /\ refresh_tokens' = refresh_tokens /\ users' = users
                   /\ resp'.status = 200
                         => /\ resp'.body.refresh_token = v
                            /\ \E t \in refresh_tokens' : t.token = v
                   /\ \A w \in 0..minted, a \in BOOLEAN :
                         (RefreshOutcome(w, a))' = RefreshOutcome(w, a)
        /\ \A t \in refresh_tokens :
              (\A x \in refresh_tokens' : x.token # t.token)
              => \E r \in reqs \ reqs' :
                    \/ r.op = "token" /\ r.user_id = t.user_id
                    \/ r.op = "logout" /\ r.value = t.token ]_vars

\* a refresh has succeeded at the expiry instant of the token submitted,
\* which is still stored
C13_Witness ==
    /\ resp.op = "refresh" /\ resp.status = 200
    /\ now = RefreshTTL
    /\ \E t \in refresh_tokens :
          t.token = resp.body.refresh_token /\ t.token = resp.key[1] /\ t.expires_at = now

\* C14: a logout request with value t is answered 200 "Signed out
\* successfully" whether a stored refresh token has value t or not; when it
\* has returned no stored token has value t, a refresh request with t is
\* answered "Invalid refresh token", and the stored tokens with another
\* value are the ones stored before.
C14_LogoutRemovesToken ==
    [][ resp'.op = "logout" =>
        /\ resp'.status = 200 /\ resp'.detail = "Signed out successfully"
        /\ resp'.body = NoBody
        /\ \A t \in refresh_tokens' : t.token # resp'.key[1]
        /\ \A v \in 0..minted, aware \in BOOLEAN :
              resp'.key = <<v>>
              => (RefreshOutcome(v, aware))' = "Invalid refresh token"
        /\ refresh_tokens' = { t \in refresh_tokens : t.token # resp'.key[1] } ]_vars

\* two users have signed in, the second has logged out with the token they
\* were given, and the first user's token is still stored
C14_Witness ==
    /\ resp.op = "logout" /\ resp.status = 200 /\ resp.key = <<2>>
    /\ minted = 2 /\ reqs = {}
    /\ Cardinality(users) = 2
    /\ \E t \in refresh_tokens : t.token = 1
    /\ Cardinality(refresh_tokens) = 1

\* C15: a reset-password request for a local user that submits the stored
\* reset code no later than its expiry replaces the password hash and clears
\* the reset code and its expiry, after which a reset-password request with
\* any code is refused; a request with another code, with no code stored or
\* after the expiry is answered 400 and leaves the users table as it was.
\* While no reset code is stored every reset-password request is refused,
\* and a reset code is stored again only by a forgot-password request.
C15_ResetConsumesCode ==
    [][ /\ resp'.op = "reset" =>
             \A e \in CodeEmails, c \in SubmittedCodes :
                \A u \in UserByEmail(Strip(Lower(e))) :
                   ( /\ resp'.key = <<u.email>> /\ u.provider = "local"
                     /\ reset_password(1, e, c, "s3cretpw") )
                   => IF /\ u.reset_code = c /\ u.reset_expires_at # NoTime
                         /\ now <= u.reset_expires_at
                      THEN /\ resp'.status = 200
                           /\ users' = (users \ {u}) \cup
                                 {[u EXCEPT !.hashed_password = <<"bcrypt", "s3cretpw">>,
                                            !.reset_code = NoCode,
                                            !.reset_expires_at = NoTime]}
                           /\ \A later \in SubmittedCodes :
                                 (ResetOutcome(u.email, later))'
                                    = "Invalid or expired reset code"
                      ELSE /\ resp'.status = 400
                           /\ resp'.detail = "Invalid or expired reset code"
                           /\ users' = users
        /\ \A u \in users :
              u.reset_code = NoCode
              => /\ \A c \in SubmittedCodes : ResetOutcome(u.email, c) # ResetSuccess
                 /\ \A x \in users' :
                       (x.id = u.id /\ x.reset_code # NoCode)
                       => resp'.op = "forgot" /\ resp'.status = 200 ]_vars

\* a reset-password request was refused after an earlier one had replaced
\* the password and cleared the code
C15_Witness ==
    /\ resp.op = "reset" /\ resp.status = 400
    /\ \E u \in UserByEmail(resp.key[1]) :
          /\ u.hashed_password = <<"bcrypt", "s3cretpw">>
          /\ u.reset_code = NoCode /\ u.reset_expires_at = NoTime

\* C16: a verify request for a user that is already verified is answered
\* 200 whatever code it submits and leaves the users table as it was; after
\* any verify request that was answered 200 the user is verified with no
\* code and no expiry stored, and a further verify request with any code is
\* one for an already verified user: verifying twice leaves what verifying
\* once leaves.
C16_VerifyIdempotent ==
    [][ resp'.op = "verify" =>
        \A e \in CodeEmails, c \in SubmittedCodes :
           \A u \in UserByEmail(Strip(Lower(e))) :
              (resp'.key = <<u.email>> /\ verify_email(1, e, c))
              => /\ u.is_verified
                       => /\ resp'.status = 200
                          /\ resp'.detail = "Email already verified"
                          /\ users' = users
                 /\ resp'.status = 200
                       => /\ \A x \in users' :
                                x.id = u.id
                                => /\ x.is_verified /\ x.verification_code = NoCode
                                   /\ x.verification_expires_at = NoTime
                          /\ \A again \in SubmittedCodes :
                                (VerifyOutcome(u.email, again))'
                                   = "Email already verified" ]_vars

\* a verify request for a verified user was answered 200 after the life of
\* every code issued had passed
C16_Witness ==
    /\ resp.op = "verify" /\ resp.status = 200
    /\ resp.detail = "Email already verified"
    /\ now > CodeTTL
    /\ \E u \in UserByEmail(resp.key[1]) :
          /\ u.is_verified /\ u.verification_code = NoCode
          /\ u.verification_expires_at = NoTime

\* C17: a Google sign-in whose token passes the checks and whose email is
\* the email of a stored user with provider local is answered 400 "This
\* email is registered with password. Please use standard login."; it
\* prepares and returns no token and leaves the users (provider and password
\* hash of that account included), the stored refresh tokens and the access
\* tokens as they were.
C17_LocalAccountNotLinked ==
    [][ (resp'.op = "google" \/ reqs' # reqs) =>
        \A idinfo \in GoogleTokens :
           \A u \in UserByEmail(Strip(Lower(idinfo.email))) :
              ( /\ idinfo.verifies
                /\ idinfo.iss \in {"accounts.google.com", "https://accounts.google.com"}
                /\ u.provider = "local"
                /\ GoogleBegin(1, idinfo, NoName) )
              => /\ resp'.op = "google" /\ resp'.status = 400
                 /\ resp'.detail =
                       "This email is registered with password. Please use standard login."
                 /\ resp'.body = NoBody
                 /\ reqs' = reqs /\ minted' = minted
                 /\ users' = users /\ refresh_tokens' = refresh_tokens
                 /\ access' = access ]_vars

\* a Google sign-in for the address of a local, verified user who holds a
\* stored refresh token was refused and the token is still stored
C17_Witness ==
    /\ resp.op = "google" /\ resp.status = 400
    /\ resp.detail = "This email is registered with password. Please use standard login."
    /\ \E u \in UserByEmail(resp.key[1]) :
          /\ u.provider = "local" /\ u.is_verified
          /\ u.hashed_password = <<"bcrypt", "passw0rd">>
          /\ TokenByUser(u.id) # {}

\* the username b_k
Suffixed(b, k) == b \o <<"_">> \o Str(k)

\* the smallest k >= 1 such that b_k is no stored user's username
FirstFree(b) ==
    CHOOSE k \in 1..(Cardinality(users) + 1) :
       /\ UserByUsername(Suffixed(b, k)) = {}
       /\ \A j \in 1..(k - 1) : UserByUsername(Suffixed(b, j)) # {}

\* the username of C18 as stated, for the display name and email supplied
StatedUsername(name, email) ==
    LET b == IF name # NoName THEN name ELSE LocalPart(email)
    IN  IF UserByUsername(b) = {} THEN b ELSE Suffixed(b, FirstFree(b))

\* the username of C18 as amended
TrimmedUsername(name, email) ==
    LET b == Strip(IF name # NoName THEN name ELSE LocalPart(email))
        first == IF b # <<>> THEN b ELSE <<"u", "s", "e", "r">>
    IN  IF UserByUsername(first) = {} THEN first ELSE Suffixed(b, FirstFree(b))

\* C18 as stated: a Google sign-in that provisions a user with base name b
\* (the display name supplied, otherwise the local part of the email) gives
\* the user the username b if no stored user has it, otherwise b_k for the
\* smallest k >= 1 such that no stored user has b_k.
C18_ProvisionedAsStated ==
    [][ \A name \in GoogleNames, idinfo \in AcceptedTokens :
           GoogleBegin(1, idinfo, name)
           => \A r \in reqs' \ reqs :
                 r.op = "google_insert"
                 => r.row.username = StatedUsername(name, Strip(Lower(idinfo.email))) ]_vars

\* C18 amended: the base name b is the display name supplied (otherwise the
\* local part of the email) with the surrounding white space removed; the
\* provisioned username is b if b is not empty and no stored user has it,
\* "user" if b is empty and no stored user has "user", and otherwise b_k for
\* the smallest k >= 1 such that no stored user has b_k.  With the usernames
\* ali and ali_1 stored and the base name ali it is ali_2.
C18_ProvisionedTrimmed ==
    [][ /\ \A name \in GoogleNames, idinfo \in AcceptedTokens :
              /\ ProvisionedUsername(name, Strip(Lower(idinfo.email)))
                    = TrimmedUsername(name, Strip(Lower(idinfo.email)))
              /\ GoogleBegin(1, idinfo, name)
                    => \A r \in reqs' \ reqs :
                          r.op = "google_insert"
                          => r.row.username
                                = TrimmedUsername(name, Strip(Lower(idinfo.email)))
        /\ ( /\ UserByUsername(<<"a", "l", "i">>) # {}
             /\ UserByUsername(<<"a", "l", "i", "_", "1">>) # {}
             /\ UserByUsername(<<"a", "l", "i", "_", "2">>) = {} )
           => ProvisionedUsername(<<"a", "l", "i">>, <<"b", "@", "x">>)
                 = <<"a", "l", "i", "_", "2">> ]_vars

\* a registered user has the username ali and a user provisioned by a
\* Google sign-in with the display name ali has the username ali_1
C18_Witness ==
    /\ \E u \in UserByUsername(<<"a", "l", "i">>) : u.provider = "local"
    /\ \E g \in UserByUsername(<<"a", "l", "i", "_", "1">>) : g.provider = "google"
    /\ reqs = {}

\* C19: a Google sign-in whose token fails the provider's verification
\* (signature, expiry, audience), or names an issuer other than the two
\* accepted ones, or carries no email, is answered 400 and changes nothing:
\* no user is stored, no refresh token is stored or replaced, none is in
\* preparation, and no access token is returned.
C19_BadTokenNoEffect ==
    [][ (resp'.op = "google" \/ reqs' # reqs) =>
        \A idinfo \in GoogleTokens :
           ( /\ \/ ~idinfo.verifies
                \/ idinfo.iss \notin {"accounts.google.com", "https://accounts.google.com"}
                \/ idinfo.email = <<>>
             /\ GoogleBegin(1, idinfo, NoName) )
           => /\ resp'.op = "google" /\ resp'.status = 400 /\ resp'.body = NoBody
              /\ users' = users /\ refresh_tokens' = refresh_tokens
              /\ access' = access /\ reqs' = reqs /\ minted' = minted ]_vars

\* a token of another issuer, for the address of a Google user who is
\* signed in, was refused and the user's refresh token is still stored
C19_Witness ==
    /\ resp.op = "google" /\ resp.status = 400 /\ resp.detail = "Invalid issuer"
    /\ \E g \in UserByEmail(resp.key[1]) :
          g.provider = "google" /\ TokenByUser(g.id) # {}

C21_DeleteRemovesRowAndFile ==
    [][ \A tok \in access, id \in JobIds :
          (resp'.op = "delete" /\ delete_wallpaper(1, tok, id))
          => \A user \in UserByEmail(tok.sub) : \A w \in OwnJob(user, id) :
                TokenLive(tok)
                => /\ resp'.status = 200
                   /\ \A x \in wallpapers' : x.id # id
                   /\ w.image_url \notin files' ]_vars

\* C22: a list request returns exactly the jobs whose owner is the caller;
\* a recreate, delete or download request for an id that no job has, or
\* that a job of another user has, is answered 404 "Wallpaper not found"
\* and changes nothing: no job row is created, modified or removed, no
\* generation step is scheduled and no file is removed.
C22_OnlyOwnJobs ==
    [][ resp'.op \in {"list", "recreate", "delete", "download"} =>
        \A tok \in access :
          resp'.key[1] = tok.sub =>
          /\ (resp'.op = "list" /\ list_wallpapers(1, tok) /\ resp'.status = 200)
             => \A u \in UserByEmail(tok.sub) :
                   { row.id : row \in resp'.body }
                      = { w.id : w \in { x \in wallpapers : x.user_id = u.id } }
          /\ resp'.op # "list" =>
             \A id \in JobIds :
                (/\ resp'.key = <<tok.sub, id>>
                 /\ TokenLive(tok)
                 /\ \/ recreate_wallpaper(1, tok, id)
                    \/ delete_wallpaper(1, tok, id)
                    \/ download_wallpaper(1, tok, id))
                => \A u \in UserByEmail(tok.sub) :
                      (\A w \in wallpapers : w.id = id => w.user_id # u.id)
                      => /\ resp'.status = 404 /\ resp'.detail = "Wallpaper not found"
                         /\ wallpapers' = wallpapers /\ files' = files
                         /\ tasks' = tasks /\ created' = created ]_vars

\* a recreate request for a completed job of the other user, whose file is
\* stored, has been answered 404 while the caller has a job of their own
C22_Witness ==
    /\ resp.op = "recreate" /\ resp.status = 404
    /\ \E u \in UserByEmail(resp.key[1]) :
          /\ \E w \in wallpapers :
                /\ w.id = resp.key[2] /\ w.user_id # u.id
                /\ w.status = "completed" /\ w.image_url \in files
          /\ \E w \in wallpapers : w.user_id = u.id

\* C23: a resend-code request for the address of a verified user returns
\* 200 and is a no-op: the users table, with the user's verification code,
\* its expiry and the verified flag, is unchanged, and the response carries
\* no mail, so that no code mail can follow it.
C23_ResendVerifiedNoOp ==
    [][ resp'.op = "resend" =>
        \A e \in CodeEmails, c \in IssuedCodes :
           resend_verification_code(1, e, c)
           => \A u \in users :
                 (u.email = Strip(Lower(e)) /\ u.is_verified)
                 => /\ resp'.status = 200
                    /\ users' = users
                    /\ resp'.body = NoBody
                    /\ \A outcome \in MailOutcomes : ~(ENABLED SendMail(outcome))' ]_vars

\* a resend-code request for a verified user has been answered: the user
\* is verified and has no verification code
C23_Witness ==
    /\ resp.op = "resend" /\ resp.status = 200
    /\ \E u \in UserByEmail(resp.key[1]) :
          /\ u.is_verified
          /\ u.verification_code = NoCode /\ u.verification_expires_at = NoTime

\* C24: a recreate request for a job of the caller adds one job, owned by
\* the caller, pending, without image reference and with the prompt, size
\* and style of the original, returns it, and schedules exactly one
\* generation step, for the new job; the original row, with its status and
\* image reference, and the stored files are unchanged, whatever the status
\* of the original is.
C24_RecreateAddsJob ==
    [][ resp'.op = "recreate" =>
        \A tok \in access, id \in JobIds :
           (recreate_wallpaper(1, tok, id) /\ resp'.status # 404 /\ TokenLive(tok))
           => \A u \in UserByEmail(tok.sub) : \A original \in wallpapers :
                 (original.id = id /\ original.user_id = u.id)
                 => /\ resp'.status = 200
                    /\ original \in wallpapers'
                    /\ files' = files
                    /\ \E job \in wallpapers' \ wallpapers :
                          /\ wallpapers' = wallpapers \cup {job}
                          /\ resp'.body = job
                          /\ job.id # original.id /\ job.user_id = u.id
                          /\ job.status = "pending" /\ job.image_url = NoFile
                          /\ job.prompt = original.prompt
                          /\ job.size = original.size /\ job.style = original.style
                          /\ \E t \in tasks' \ tasks :
                                /\ tasks' = tasks \cup {t}
                                /\ t.wallpaper_id = job.id /\ t.pc = "scheduled"
                                /\ t.prompt = original.prompt
                                /\ t.size = original.size /\ t.style = original.style ]_vars

\* a completed job has just been recreated: the original is still completed
\* with its file stored, the new job is pending and its step is scheduled
C24_Witness ==
    /\ resp.op = "recreate" /\ resp.status = 200
    /\ resp.body \in wallpapers /\ resp.body.status = "pending"
    /\ \E original \in wallpapers :
          /\ original.id = resp.key[2]
          /\ original.status = "completed" /\ original.image_url \in files
          /\ resp.body.size = original.size /\ resp.body.style = original.style
    /\ \E t \in tasks : t.wallpaper_id = resp.body.id /\ t.pc = "scheduled"

\* C25: when the generation step of every submitted job is run and every
\* provider call returns or raises, every stored job is eventually
\* completed or failed (or is no longer stored); and a step whose provider
\* call raises, returns an empty result or a result that is not a list, or
\* whose read of the result raises, returns normally with the job failed.
C25_EveryJobFinishes ==
    /\ \A id \in JobIds :
          (\E w \in wallpapers : w.id = id)
          ~> \/ \E w \in wallpapers : w.id = id /\ w.status \in {"completed", "failed"}
             \/ \A w \in wallpapers : w.id # id
    /\ [][ \A t \in tasks \ tasks' :
             (t.pc = "calling" /\ resp'.body \in ProviderOutcomes \ {"bytes"})
             => /\ resp'.op = "generate" /\ resp'.detail = "returned"
                /\ \E w \in wallpapers' : w.id = t.wallpaper_id /\ w.status = "failed"
                /\ files' = files ]_vars

\* both jobs have been generated: the step of one got an empty result and
\* left it failed, the other is completed; no step is left
C25_Witness ==
    /\ resp.op = "generate" /\ resp.detail = "returned" /\ resp.body = "empty"
    /\ \E w \in wallpapers : w.id = resp.key[1] /\ w.status = "failed"
    /\ \E w \in wallpapers : w.status = "completed"
    /\ tasks = {} /\ created = MaxJobs

\* C26: a login, verify, resend-code, forgot-password or reset-password
\* request for an address that no user has gets the response that the same
\* request gets when the user exists and the other factor is wrong: the
\* failure of a wrong password for login, of a wrong code for verify and
\* reset-password, and no failure for resend-code and forgot-password, which
\* have no other factor.
C26_FailuresHideExistence ==
    [][ resp'.op \in {"login", "verify", "resend", "forgot", "reset"} =>
        \A e \in EmailInputs :
           UserByEmail(Strip(Lower(e))) = {}
           => /\ \A p \in Passwords :
                    LoginBegin(1, e, p)
                    => resp'.status = 400 /\ resp'.detail = "Invalid email or password"
              /\ \A c \in TriedCodes :
                    verify_email(1, e, c)
                    => /\ resp'.status = 400
                       /\ resp'.detail = "Invalid or expired verification code"
              /\ \A c \in TriedCodes, p \in Passwords :
                    reset_password(1, e, c, p)
                    => /\ resp'.status = 400
                       /\ resp'.detail = "Invalid or expired reset code"
              /\ \A c \in OneCode :
                    (resend_verification_code(1, e, c) \/ forgot_password(1, e, c))
                    => resp'.status = 200 ]_vars

C28_ImageIffCompleted ==
    \A w \in wallpapers :
       /\ w.status \in {"pending", "completed", "failed"}
       /\ (w.image_url # NoFile) <=> (w.status = "completed")
       /\ w.status = "completed"
             => /\ w.image_url = w.id
                /\ w.image_url \in files
                /\ \A t \in tasks : t.wallpaper_id # w.id

\* a generation step has just written its file and completed its job,
\* while another job of the same caller is failed
C28_Witness ==
    /\ resp.op = "generate" /\ resp.body = "bytes"
    /\ \E w \in wallpapers :
          /\ w.id = resp.key[1] /\ w.status = "completed" /\ w.image_url \in files
          /\ \E x \in wallpapers :
                x.user_id = w.user_id /\ x.status = "failed" /\ x.image_url = NoFile

\* C29: the verified flag of a stored user never goes from true to false,
\* and goes from false to true only in a verify request for that user that
\* submits the stored verification code before its expiry has passed.  A
\* forgot-password request, and a reset-password request with the stored
\* unexpired reset code, succeed for an unverified local user and leave the
\* flag, the verification code and its expiry as they were; a login of an
\* unverified local user with the stored password, the one set by a reset
\* included, is rejected with 403 "Email not verified".
C29_VerifiedOnlyByVerify ==
    [][ /\ \A u \in users : \A x \in users' :
              x.id = u.id
              => /\ u.is_verified => x.is_verified
                 /\ (~u.is_verified /\ x.is_verified)
                       => /\ resp'.op = "verify" /\ resp'.status = 200
                          /\ u.verification_code # NoCode
                          /\ now <= u.verification_expires_at
                          /\ \E e \in CodeEmails :
                                /\ Strip(Lower(e)) = u.email
                                /\ verify_email(1, e, u.verification_code)
                 /\ resp'.op \in {"forgot", "reset"}
                       => /\ x.is_verified = u.is_verified
                          /\ x.verification_code = u.verification_code
                          /\ x.verification_expires_at = u.verification_expires_at
        /\ resp'.op \in {"forgot", "reset", "login"} =>
           \A e \in CodeEmails : \A u \in users :
              (u.email = Strip(Lower(e)) /\ u.provider = "local" /\ ~u.is_verified)
              => /\ \A c \in OneCode : forgot_password(1, e, c) => resp'.status = 200
                 /\ \A c \in TriedCodes, p \in Passwords :
                       (/\ reset_password(1, e, c, p)
                        /\ c = u.reset_code /\ now <= u.reset_expires_at)
                       => /\ resp'.status = 200
                          /\ \E x \in users' :
                                /\ x.id = u.id /\ ~x.is_verified
                                /\ x.hashed_password = <<"bcrypt", p>>
                 /\ \A p \in Passwords :
                       (LoginBegin(1, e, p) /\ u.hashed_password = <<"bcrypt", p>>)
                       => /\ resp'.status = 403 /\ resp'.detail = "Email not verified"
                          /\ reqs' = reqs ]_vars

\* a login with the password that a reset has set has been rejected as
\* unverified: the user is unverified and still has the verification code
C29_Witness ==
    /\ resp.op = "login" /\ resp.status = 403
    /\ \E u \in UserByEmail(resp.key[1]) :
          /\ ~u.is_verified /\ u.verification_code # NoCode
          /\ u.hashed_password = hash_password("s3cretpw")
          /\ u.reset_code = NoCode

====
